---- MODULE Spec2Model ----
(***************************************************************************)
(* galerie: the photo-processing engine (src/src/processing.rs) and the    *)
(* build pipeline (src/src/pipeline.rs) over a model of the source photo   *)
(* tree and of the output directory.                                       *)
(*                                                                         *)
(* Paths are sequences of path components (strings) relative to the output *)
(* directory; file names are built by string concatenation exactly as the  *)
(* format! calls of the source build them.  Option<T> is a sequence of     *)
(* length 0 (None) or 1 (Some).                                            *)
(***************************************************************************)
EXTENDS Integers, Sequences, FiniteSets, TLC

VARIABLES
    src,        \* the photo source tree: set of [dir, stem, ext, data]
    gps,        \* config.gps of site.toml: "off" | "general" | "on"
    theme,      \* the theme the site names (templates present, static source)
    files,      \* regular files of the output directory: path -> content
    dirs,       \* directories of the output directory (<<>> is its root)
    root,       \* Pipeline.root: album path -> sequence of Photo
    expected,   \* expected_files of Pipeline::build
    manifest,   \* DataManifest returned by generate_data_files
    asset_manifest, \* AssetManifest returned by copy_static
    languages,  \* config.languages of site.toml (all_languages unset)
    error,      \* Option<Error>: the Err that load or build returned
    pc,         \* position in load / build
    stack,      \* albums process_album_recursive still has to visit
    cur,        \* Option<album path>: the album whose photos are in flight
    pending,    \* indices of cur's photos whose task has not returned yet
    tasks,      \* per task that is past its cache check and has not written
                \* yet: which of its four targets it found missing
    stats,      \* the five AtomicUsize counters of process_album
    seed,       \* RandomState keys of this process (HashMap iteration order)
    builds,     \* number of builds started so far
    log,        \* history: per source photo, what process_photo did this build
    dirfail,    \* history: albums whose images directory could not be created
    prev,       \* history: outcome of the previous build
    change      \* history: what changed in the inputs since the previous build

\* the watch process (watch.rs)
VARIABLES
    site_dir,       \* the -C argument: the site directory as the user gave it
    build,          \* config.build of site.toml, relative to the site directory
    wpc,            \* position of the watch process: "off" | "initial" |
                    \* "waiting" (in recv_timeout) | "rebuild" (do_build
                    \* called) | "building" (the pipeline is loaded)
    output_dir,     \* output_dir of watch_and_rebuild, set once
    rx,             \* the channel: events sent and not yet received
    needs_rebuild,  \* needs_rebuild of the event loop
    elapsed,        \* ticks the current recv_timeout has been waiting
    gap,            \* history: ticks since the last relevant event arrived
    burst,          \* history: number of bursts of relevant events so far
    got,            \* history: per relevant event received since the last
                    \* rebuild returned, its burst
    served,         \* history: the bursts a rebuild was started for
    sent,           \* history: number of events the user caused
    owed            \* history: "owed" when a relevant event arrived during a
                    \* rebuild and no rebuild has started since, "paid"
                    \* when one has

buildVars == <<src, gps, theme, languages, files, dirs, root, expected, manifest,
               asset_manifest, error, pc, stack, cur, pending, tasks, stats,
               seed, builds, log, dirfail, prev, change>>

watchVars == <<site_dir, build, wpc, output_dir, rx, needs_rebuild, elapsed, gap,
               burst, got, served, sent, owed>>

vars == <<buildVars, watchVars>>

----------------------------------------------------------------------------
(* Bounds of the model *)

MaxBuilds == 2      \* builds run one after the other
Debounce == 2       \* ticks of the debounce period of the watch loop
MaxEvents == 2      \* events the user causes while the site is watched
MaxWatchBuilds == 3 \* builds of one watch process, the initial one included
MaxPaths == 2       \* paths of one event
MaxStale == 1       \* stale entries in the output directory before build 1

----------------------------------------------------------------------------
(* Option, sequences, paths *)

\* let x = v; ...: v is evaluated once and bound for the rest
With(v, Rest(_)) == Rest(v)

NoneV == <<>>
Some(v) == <<v>>
IsSome(o) == Len(o) = 1

\* Path::starts_with / strip_prefix on component sequences
IsPrefix(p, q) == Len(p) <= Len(q) /\ SubSeq(q, 1, Len(p)) = p
Parent(p) == SubSeq(p, 1, Len(p) - 1)
FileName(p) == p[Len(p)]
\* every ancestor of p, the root <<>> and p itself included
Ancestors(p) == {SubSeq(p, 1, n) : n \in 0..Len(p)}
\* PathBuf::join
Join(p, name) == Append(p, name)

RECURSIVE SeqToSet(_)
SeqToSet(s) == IF s = <<>> THEN {} ELSE {Head(s)} \cup SeqToSet(Tail(s))

\* the sequence listing the elements of S in the order of the sequence ord
RECURSIVE SortBy(_, _)
SortBy(S, ord) ==
    IF ord = <<>> THEN <<>>
    ELSE (IF Head(ord) \in S THEN <<Head(ord)>> ELSE <<>>) \o SortBy(S, Tail(ord))

----------------------------------------------------------------------------
(* The universe of inputs *)

GpsModes == {"off", "general", "on"}

\* directory names and photo stems, each listed in str::cmp order
DirOrder == <<"a", "b", "c">>
StemOrder == <<"index", "p", "q", "r">>
Exts == {"jpg"}

\* the file names of one album: sort_album orders the photos by stem and
\* keeps photos of the same stem in the order read_dir gave them, which is
\* taken to be the order of their extensions
NameOrder ==
    << <<"index", "jpg">>, <<"p", "jpeg">>, <<"p", "jpg">>, <<"q", "jpg">>,
       <<"r", "jpg">> >>

\* album paths of the model, listed so that a parent precedes its children
\* and siblings are in slug order
AlbumOrder == << <<>>, <<"a">>, <<"a", "c">>, <<"b">>, <<"b", "c">> >>

(* Source bytes.  Each value stands for one byte string; what the decoders *)
(* make of it is a function of the bytes:                                  *)
(*   hash   blake3(bytes).to_hex()[..8]                                    *)
(*   dims   Some(<<w, h>>) when the header probe succeeds                  *)
(*   decode image::load_from_memory succeeds                               *)
(*   exif   "ok" | "none" (no/unparsable EXIF) | "panic" (little_exif       *)
(*          panics on it)                                                  *)
(*   coord  Some(<<lat, lon>>) of the GPS IFD                              *)
(*   strip  what Metadata::write_to_vec does after the tags are removed:   *)
(*          "ok" | "err"                                                   *)
Datas == {"d1", "d2", "d3", "d4", "d5"}
DataInfo(d) ==
    CASE d = "d1" -> [hash |-> "aaaa1111", size |-> 9, dims |-> Some(<<3000, 2000>>),
                      decode |-> TRUE, exif |-> "ok", coord |-> Some(<<35, 139>>),
                      strip |-> "ok"]
      [] d = "d2" -> [hash |-> "bbbb2222", size |-> 5, dims |-> Some(<<100, 80>>),
                      decode |-> TRUE, exif |-> "ok", coord |-> Some(<<-33, 151>>),
                      strip |-> "err"]
      [] d = "d3" -> [hash |-> "cccc3333", size |-> 7, dims |-> Some(<<800, 600>>),
                      decode |-> TRUE, exif |-> "panic", coord |-> NoneV,
                      strip |-> "ok"]
      [] d = "d4" -> [hash |-> "dddd4444", size |-> 3, dims |-> NoneV,
                      decode |-> FALSE, exif |-> "none", coord |-> NoneV,
                      strip |-> "ok"]
      [] d = "d5" -> [hash |-> "eeee5555", size |-> 6, dims |-> Some(<<640, 480>>),
                      decode |-> TRUE, exif |-> "ok", coord |-> Some(<<-21, 55>>),
                      strip |-> "ok"]

Hashes == {DataInfo(d).hash : d \in Datas} \cup {""}

SrcPhoto(dir, stem, data) == [dir |-> dir, stem |-> stem, ext |-> "jpg", data |-> data]

\* photo trees the model starts from
Sources ==
    { { SrcPhoto(<<>>, "p", "d1"), SrcPhoto(<<"a">>, "q", "d2"),
        SrcPhoto(<<"a">>, "r", "d4"), SrcPhoto(<<"a", "c">>, "p", "d3") },
      { SrcPhoto(<<>>, "q", "d3"), SrcPhoto(<<"a">>, "p", "d1"),
        SrcPhoto(<<"a">>, "q", "d1"), SrcPhoto(<<"a">>, "r", "d5") },
      { SrcPhoto(<<>>, "index", "d1"), SrcPhoto(<<"b">>, "p", "d4") },
      {} }

\* what the theme name of site.toml resolves to.  resolves: "local" (a
\* directory of that name under the site directory), "builtin" (an embedded
\* theme of that name) or "none"; the other fields are what the theme's
\* templates/ and static/ hold
ThemeOf(name, resolves, has_index, has_album, has_photo, static_source) ==
    [name |-> name, resolves |-> resolves, has_index_template |-> has_index,
     has_album_template |-> has_album, has_photo_template |-> has_photo,
     static_source |-> static_source]

Themes ==
    { ThemeOf("mine", "local", TRUE, TRUE, TRUE, "directory"),
      ThemeOf("plain", "local", TRUE, FALSE, FALSE, "none"),
      ThemeOf("basic", "builtin", TRUE, TRUE, TRUE, "builtin"),
      ThemeOf("draft", "local", FALSE, TRUE, TRUE, "directory"),
      ThemeOf("nosuch", "none", FALSE, FALSE, FALSE, "none") }

\* files of a theme's static/ directory: [dir, stem, ext, data]; the name
\* of a file is stem.ext, and the names that start with '.' are those with
\* an empty stem
StaticFiles ==
    { [dir |-> <<>>, stem |-> "style", ext |-> "css", data |-> "s1"],
      [dir |-> <<"js">>, stem |-> "app", ext |-> "js", data |-> "s2"],
      [dir |-> <<>>, stem |-> "", ext |-> "DS_Store", data |-> "s3"] }

\* files of the static/ directory embedded for a built-in theme
BuiltinStaticFiles ==
    { [dir |-> <<>>, stem |-> "style", ext |-> "css", data |-> "s4"],
      [dir |-> <<"assets">>, stem |-> "app", ext |-> "js", data |-> "s5"],
      [dir |-> <<>>, stem |-> "", ext |-> "DS_Store", data |-> "s3"] }

\* config.languages of site.toml: the default, both built-in languages, and
\* a language without built-in translations
LanguageConfigs == { <<"en">>, <<"en", "zh_CN">>, <<"en", "fr">> }

\* the site.toml files the model starts from: theme and languages
Sites ==
    { [theme |-> "mine", languages |-> <<"en", "zh_CN">>],
      [theme |-> "plain", languages |-> <<"en">>],
      [theme |-> "basic", languages |-> <<"en", "fr">>],
      [theme |-> "draft", languages |-> <<"en">>],
      [theme |-> "nosuch", languages |-> <<"en">>] }

----------------------------------------------------------------------------
(* The output directory as a value: [files: path -> content, dirs: set]    *)

\* content of a regular file: what it holds (kind), of which input, and a
\* number (the pixel box of a variant, 0 elsewhere)
Blob(kind, of, n) == [kind |-> kind, of |-> of, n |-> n]

\* Path::exists
exists(fs, path) == path \in DOMAIN fs.files \/ path \in fs.dirs
\* Path::is_dir
is_dir(fs, path) == path \in fs.dirs

\* fs::create_dir_all: fails when an ancestor (or the path) is a regular file
create_dir_all(fs, dir) ==
    IF \E q \in Ancestors(dir) : q \in DOMAIN fs.files
    THEN [ok |-> FALSE, fs |-> fs]
    ELSE [ok |-> TRUE, fs |-> [fs EXCEPT !.dirs = @ \cup Ancestors(dir)]]

\* fs::write: fails when the parent is no directory or the path is a directory
write(fs, path, content) ==
    IF Parent(path) \notin fs.dirs \/ path \in fs.dirs
    THEN [ok |-> FALSE, fs |-> fs]
    ELSE [ok |-> TRUE,
          fs |-> [fs EXCEPT !.files =
                     [p \in DOMAIN fs.files \cup {path} |->
                         IF p = path THEN content ELSE fs.files[p]]]]

\* fs::read_dir: the entries directly under dir
read_dir(fs, dir) ==
    {p \in DOMAIN fs.files \cup fs.dirs : Len(p) = Len(dir) + 1 /\ Parent(p) = dir}

\* fs::remove_file and fs::remove_dir
remove_file(fs, path) ==
    [fs EXCEPT !.files = [p \in DOMAIN fs.files \ {path} |-> fs.files[p]]]
remove_dir(fs, path) == [fs EXCEPT !.dirs = @ \ {path}]

TheFs == [files |-> files, dirs |-> dirs]

----------------------------------------------------------------------------
(* config.rs, photos.rs: naming and metadata *)

\* GpsMode::original_suffix
original_suffix(mode) == IF mode = "on" THEN "" ELSE "-nogps"

\* processing.rs get_file_extension: Some for jpg/jpeg/png/webp
get_file_extension(extension) ==
    IF extension \in {"jpg", "jpeg", "png", "webp"} THEN Some(extension) ELSE NoneV

\* reverse_geocoder lookup (a pure table): nearest record of a coordinate
Geocode(coord) ==
    IF coord = <<35, 139>> THEN [name |-> "Tokyo", admin1 |-> "Tokyo", cc |-> "JP"]
    ELSE IF coord = <<-21, 55>>
    THEN [name |-> "Saint-Denis", admin1 |-> "Reunion", cc |-> "RE"]
    ELSE [name |-> "Sydney", admin1 |-> "", cc |-> "AU"]

\* photos.rs country_code_to_flag: one regional indicator symbol per letter
country_code_to_flag(cc) ==
    IF cc = "JP" THEN "U+1F1EF U+1F1F5"
    ELSE IF cc = "RE" THEN "U+1F1F7 U+1F1EA" ELSE "U+1F1E6 U+1F1FA"

\* photos.rs country_code_to_name
country_code_to_name(cc) ==
    IF cc = "JP" THEN Some("Japan") ELSE IF cc = "AU" THEN Some("Australia") ELSE NoneV

Abs(n) == IF n < 0 THEN -n ELSE n

\* GpsCoords::new
GpsCoords_new(coord) ==
    LET rec == Geocode(coord)
        lat_dir == IF coord[1] >= 0 THEN "N" ELSE "S"
        lon_dir == IF coord[2] >= 0 THEN "E" ELSE "W"
    IN  [latitude |-> Some(coord[1]), longitude |-> Some(coord[2]),
         display |-> Some(ToString(Abs(coord[1])) \o ".0000 " \o lat_dir \o ", "
                          \o ToString(Abs(coord[2])) \o ".0000 " \o lon_dir),
         city |-> Some(rec.name),
         region |-> IF rec.admin1 = "" THEN NoneV ELSE Some(rec.admin1),
         country |-> country_code_to_name(rec.cc),
         country_code |-> Some(rec.cc),
         flag |-> Some(country_code_to_flag(rec.cc))]

\* GpsCoords::new_general
GpsCoords_new_general(coord) ==
    LET rec == Geocode(coord)
    IN  [latitude |-> NoneV, longitude |-> NoneV, display |-> NoneV,
         city |-> Some(rec.name),
         region |-> IF rec.admin1 = "" THEN NoneV ELSE Some(rec.admin1),
         country |-> country_code_to_name(rec.cc),
         country_code |-> Some(rec.cc),
         flag |-> Some(country_code_to_flag(rec.cc))]

\* PhotoMetadata::default
PhotoMetadata_default == [date_taken |-> NoneV, gps |-> NoneV]

\* processing.rs extract_gps
extract_gps(data) == DataInfo(data).coord

\* extract_exif with a fault: mode General builds the GPS block as mode On does
extract_exif_leaky(data, extension, gps_mode) ==
    IF get_file_extension(extension) = NoneV \/ DataInfo(data).exif # "ok"
    THEN PhotoMetadata_default
    ELSE [date_taken |-> Some("2024:01:01"),
          gps |-> IF gps_mode = "off" \/ extract_gps(data) = NoneV THEN NoneV
                  ELSE Some(GpsCoords_new(extract_gps(data)[1]))]

\* processing.rs extract_exif, for bytes little_exif does not panic on
extract_exif(data, extension, gps_mode) ==
    IF get_file_extension(extension) = NoneV \/ DataInfo(data).exif # "ok"
    THEN PhotoMetadata_default
    ELSE [date_taken |-> Some("2024:01:01"),
          gps |-> IF gps_mode = "off" \/ extract_gps(data) = NoneV THEN NoneV
                  ELSE IF gps_mode = "general"
                       THEN Some(GpsCoords_new_general(extract_gps(data)[1]))
                       ELSE Some(GpsCoords_new(extract_gps(data)[1]))]

\* Photo::from_path
Photo_from_path(s) ==
    [source |-> [dir |-> s.dir, stem |-> s.stem, ext |-> s.ext],
     stem |-> s.stem, extension |-> s.ext, hash |-> "",
     width |-> 0, height |-> 0, original_size |-> 0,
     metadata |-> PhotoMetadata_default]

\* fs::read(&photo.source) on the source tree
read_source(tree, source) ==
    LET hit == {s \in tree : s.dir = source.dir /\ s.stem = source.stem
                              /\ s.ext = source.ext}
    IN  IF hit = {} THEN NoneV ELSE Some((CHOOSE s \in hit : TRUE).data)

----------------------------------------------------------------------------
(* processing.rs: one photo *)

MICRO_THUMB_SIZE == 120
THUMB_SIZE == 600
FULL_SIZE == 2400

Max2(a, b) == IF a > b THEN a ELSE b

\* generate_variant: shrink to the max_size box, never enlarge; the result
\* is named by the source bytes and the longer side of the encoded image
generate_variant(data, max_size) ==
    LET wh == DataInfo(data).dims[1]
    IN  Blob("webp", data,
             IF wh[1] > max_size \/ wh[2] > max_size THEN max_size
             ELSE Max2(wh[1], wh[2]))

\* strip_gps_from_image: "panic" | [ok, bytes]
strip_gps_from_image(data, extension) ==
    IF get_file_extension(extension) = NoneV THEN [ok |-> TRUE, bytes |-> Blob("bytes", data, 0)]
    ELSE IF DataInfo(data).exif = "panic" THEN [ok |-> FALSE, bytes |-> Blob("panic", data, 0)]
    ELSE IF DataInfo(data).exif = "none" THEN [ok |-> TRUE, bytes |-> Blob("bytes", data, 0)]
    ELSE IF DataInfo(data).strip = "err" THEN [ok |-> FALSE, bytes |-> Blob("err", data, 0)]
    ELSE [ok |-> TRUE, bytes |-> Blob("nogps", data, 0)]

\* WriteIf with a fault: the target is written whether or not it exists
WriteIf_always(st, cond, path, content) ==
    IF ~st.ok THEN st
    ELSE With(write(st.fs, path, content), LAMBDA w :
             [ok |-> w.ok, fs |-> w.fs,
              wrote |-> IF w.ok THEN st.wrote \cup {path} ELSE st.wrote])

\* one fs::write of process_photo, skipped once an earlier step has failed
WriteIf(st, cond, path, content) ==
    IF ~st.ok \/ ~cond THEN st
    ELSE With(write(st.fs, path, content), LAMBDA w :
             [ok |-> w.ok, fs |-> w.fs,
              wrote |-> IF w.ok THEN st.wrote \cup {path} ELSE st.wrote])

\* the four target paths of process_photo
micro_thumb_path(photo, images_dir) ==
    Join(images_dir, photo.stem \o "-" \o photo.hash \o "-micro.webp")
thumb_path(photo, images_dir) ==
    Join(images_dir, photo.stem \o "-" \o photo.hash \o "-thumb.webp")
full_path(photo, images_dir) ==
    Join(images_dir, photo.stem \o "-" \o photo.hash \o "-full.webp")
original_path(photo, images_dir, gps_mode) ==
    Join(images_dir, photo.stem \o "-" \o photo.hash \o "-original"
                     \o original_suffix(gps_mode) \o "." \o photo.extension)

\* the PhotoProcessingResult (ok) or the error (~ok) of process_photo, with
\* the photo and the output directory as the call leaves them
Outcome(ok, photo, fs, generated_webp, copied_original, decoded, wrote, hit) ==
    [ok |-> ok, photo |-> photo, fs |-> fs, generated_webp |-> generated_webp,
     copied_original |-> copied_original, decoded |-> decoded, wrote |-> wrote,
     hit |-> hit]

\* the bytes written as the original: Some(bytes), or None when the ? of
\* "Ok(result) => result?" returns the error of strip_gps_from_image
final_original(data, extension, gps_mode) ==
    IF gps_mode # "on"
    THEN LET r == strip_gps_from_image(data, extension)
         IN  IF r.ok THEN Some(r.bytes)
             ELSE IF r.bytes.kind = "panic" THEN Some(Blob("bytes", data, 0))
             ELSE NoneV
    ELSE Some(Blob("bytes", data, 0))

\* the cache check of process_photo on the output directory fs: which of
\* the four targets, named by the hash of the source bytes, do not exist
cache_check(photo, images_dir, gps_mode, fs, tree) ==
    LET rd == read_source(tree, photo.source)
        hashed == IF rd = NoneV THEN photo
                  ELSE [photo EXCEPT !.hash = DataInfo(rd[1]).hash]
    IN  [micro |-> ~exists(fs, micro_thumb_path(hashed, images_dir)),
         thumb |-> ~exists(fs, thumb_path(hashed, images_dir)),
         full |-> ~exists(fs, full_path(hashed, images_dir)),
         original |-> ~exists(fs, original_path(hashed, images_dir, gps_mode))]

\* process_photo, with need the outcome of its cache check and fs the
\* output directory its writes go to
process_photo_at(photo, images_dir, gps_mode, need, fs, tree) ==
    LET rd == read_source(tree, photo.source)
    IN  IF rd = NoneV
        THEN Outcome(FALSE, photo, fs, FALSE, FALSE, FALSE, {}, FALSE)
        ELSE
    LET data == rd[1]
        info == DataInfo(data)
        p1 == [photo EXCEPT
                 !.original_size = info.size,
                 !.hash = info.hash,
                 !.metadata = IF get_file_extension(photo.extension) # NoneV
                                 /\ info.exif = "panic"
                              THEN PhotoMetadata_default
                              ELSE extract_exif(data, photo.extension, gps_mode)]
    IN  IF info.dims = NoneV
        THEN Outcome(FALSE, p1, fs, FALSE, FALSE, FALSE, {}, FALSE)
        ELSE
    LET p2 == [p1 EXCEPT !.width = info.dims[1][1], !.height = info.dims[1][2]]
        micro == micro_thumb_path(p2, images_dir)
        thumb == thumb_path(p2, images_dir)
        full == full_path(p2, images_dir)
        orig == original_path(p2, images_dir, gps_mode)
        need_micro == need.micro
        need_thumb == need.thumb
        need_full == need.full
        need_original == need.original
        need_webp == need_micro \/ need_thumb \/ need_full
    IN  IF ~need_micro /\ ~need_thumb /\ ~need_full /\ ~need_original
        THEN Outcome(TRUE, p2, fs, FALSE, FALSE, FALSE, {}, TRUE)
        ELSE IF need_webp /\ ~info.decode
        THEN Outcome(FALSE, p2, fs, FALSE, FALSE, TRUE, {}, FALSE)
        ELSE
    LET s0 == [ok |-> TRUE, fs |-> fs, wrote |-> {}]
        s1 == WriteIf(s0, need_micro, micro, generate_variant(data, MICRO_THUMB_SIZE))
        s2 == WriteIf(s1, need_thumb, thumb, generate_variant(data, THUMB_SIZE))
        fin == final_original(data, p2.extension, gps_mode)
    IN  With(WriteIf(s2, need_full, full, generate_variant(data, FULL_SIZE)), LAMBDA s3 :
        With(IF ~need_original \/ ~s3.ok THEN s3
             ELSE IF fin = NoneV THEN [s3 EXCEPT !.ok = FALSE]
             ELSE WriteIf(s3, TRUE, orig, fin[1]), LAMBDA s4 :
        IF s4.ok
        THEN Outcome(TRUE, p2, s4.fs, need_thumb \/ need_full, need_original,
                     need_webp, s4.wrote, FALSE)
        ELSE Outcome(FALSE, p2, s4.fs, FALSE, FALSE, need_webp, s4.wrote, FALSE)))

\* process_photo when nothing else touches the output directory between its
\* cache check and its writes
process_photo(photo, images_dir, gps_mode, fs, tree) ==
    process_photo_at(photo, images_dir, gps_mode,
                     cache_check(photo, images_dir, gps_mode, fs, tree), fs, tree)

----------------------------------------------------------------------------
(* photos.rs: discovery of the album tree *)

\* the albums discover keeps: the root and every directory with a photo at
\* any depth below it (discover_recursive adds only non-empty children)
AlbumPaths(tree) == {<<>>} \cup UNION {Ancestors(s.dir) : s \in tree}

\* album.photos after sort_album: the album's photos in stem order
AlbumPhotos(tree, path) ==
    LET order == SortBy({<<s.stem, s.ext>> : s \in {t \in tree : t.dir = path}},
                        NameOrder)
    IN  [i \in 1..Len(order) |->
            Photo_from_path(CHOOSE s \in tree :
                                /\ s.dir = path
                                /\ s.stem = order[i][1] /\ s.ext = order[i][2])]

\* discover (its Ok value; Err(NoPhotos) when the tree has no photo)
discover(tree) == [path \in AlbumPaths(tree) |-> AlbumPhotos(tree, path)]

\* album.children after sort_album
children(albums, path) ==
    SortBy({q \in DOMAIN albums : Len(q) = Len(path) + 1 /\ Parent(q) = path},
           AlbumOrder)

\* Album::all_photos: [album, photo] pairs, the album's own photos first,
\* then each child's in turn
RECURSIVE all_photos(_, _)
RECURSIVE all_photos_of(_, _)
all_photos_of(albums, cs) ==
    IF cs = <<>> THEN <<>>
    ELSE all_photos(albums, Head(cs)) \o all_photos_of(albums, Tail(cs))
all_photos(albums, path) ==
    [i \in 1..Len(albums[path]) |-> [album |-> path, photo |-> albums[path][i]]]
    \o all_photos_of(albums, children(albums, path))

\* Album::photo_count
photo_count(albums, path) == Len(all_photos(albums, path))

----------------------------------------------------------------------------
(* pipeline.rs: the expected image files *)

ImagesDir == <<"images">>

\* album_images_dir with a fault: every album's images directly under images/
album_images_dir_flat(images_dir, album_path) == images_dir

\* album_images_dir of process_album_recursive and of collect_album_images
album_images_dir(images_dir, album_path) == images_dir \o album_path

\* expected_images_of with a fault: the original is expected under both namings
expected_images_of_both(photo, dir, gps_mode) ==
    { Join(dir, photo.stem \o "-" \o photo.hash \o "-thumb.webp"),
      Join(dir, photo.stem \o "-" \o photo.hash \o "-full.webp"),
      Join(dir, photo.stem \o "-" \o photo.hash \o "-original." \o photo.extension),
      Join(dir, photo.stem \o "-" \o photo.hash \o "-original-nogps."
                \o photo.extension) }

\* what collect_album_images inserts for one photo
expected_images_of(photo, dir, gps_mode) ==
    { Join(dir, photo.stem \o "-" \o photo.hash \o "-thumb.webp"),
      Join(dir, photo.stem \o "-" \o photo.hash \o "-full.webp"),
      Join(dir, photo.stem \o "-" \o photo.hash \o "-original"
                \o original_suffix(gps_mode) \o "." \o photo.extension) }

\* collect_album_images
RECURSIVE collect_album_images(_, _, _, _)
collect_album_images(albums, album, images_dir, gps_mode) ==
    UNION {expected_images_of(albums[album][i], album_images_dir(images_dir, album),
                              gps_mode) : i \in 1..Len(albums[album])}
    \cup UNION {collect_album_images(albums, c, images_dir, gps_mode) :
                   c \in SeqToSet(children(albums, album))}

----------------------------------------------------------------------------
(* pipeline.rs: data files *)

\* blake3::hash(bytes).to_hex()[..8] of generated bytes, modelled as a
\* collision-free digest: distinct byte strings get distinct digests
blake3_hex8(bytes) == "#" \o bytes

\* util.rs url_encode: every name of this model but "my pic" consists of
\* unreserved characters, which url_encode leaves alone
url_encode(str) == IF str = "my pic" THEN "my%20pic" ELSE str

\* album_path.display() and url_encode_path: the components joined by '/'
RECURSIVE url_encode_path(_)
url_encode_path(path) ==
    IF Len(path) = 1 THEN url_encode(path[1])
    ELSE url_encode(Head(path)) \o "/" \o url_encode_path(Tail(path))

\* the common prefix of Photo::image_path, thumb_path, original_path
images_url_prefix(album_path) ==
    IF album_path = <<>> THEN "images/"
    ELSE "images/" \o url_encode_path(album_path) \o "/"

\* Photo::image_path
Photo_image_path(photo, album_path) ==
    images_url_prefix(album_path) \o url_encode(photo.stem) \o "-" \o photo.hash
        \o "-full.webp"
\* Photo::thumb_path
Photo_thumb_path(photo, album_path) ==
    images_url_prefix(album_path) \o url_encode(photo.stem) \o "-" \o photo.hash
        \o "-thumb.webp"
\* Photo::original_path
Photo_original_path(photo, album_path, gps_mode) ==
    images_url_prefix(album_path) \o url_encode(photo.stem) \o "-" \o photo.hash
        \o "-original" \o original_suffix(gps_mode) \o "." \o photo.extension
\* Photo::html_path
Photo_html_path(photo, album_path) ==
    IF album_path = <<>> THEN url_encode(photo.stem) \o ".html"
    ELSE url_encode_path(album_path) \o "/" \o url_encode(photo.stem) \o ".html"

\* find_album_path_recursive: the first album, parents before children, that
\* has a photo of this stem
RECURSIVE find_album_path_recursive(_, _, _)
RECURSIVE find_album_path_in(_, _, _)
find_album_path_in(albums, cs, photo) ==
    IF cs = <<>> THEN NoneV
    ELSE LET r == find_album_path_recursive(albums, Head(cs), photo)
         IN  IF r # NoneV THEN r ELSE find_album_path_in(albums, Tail(cs), photo)
find_album_path_recursive(albums, album, photo) ==
    IF \E i \in 1..Len(albums[album]) : albums[album][i].stem = photo.stem
    THEN Some(album)
    ELSE find_album_path_in(albums, children(albums, album), photo)

\* find_album_path_for_photo (unwrap_or_default: the root path)
find_album_path_for_photo(albums, photo) ==
    LET r == find_album_path_recursive(albums, <<>>, photo)
    IN  IF r = NoneV THEN <<>> ELSE r[1]

\* serde_json of an Option<String> and of an Option<f64>
JsonStr(o) == IF o = NoneV THEN "null" ELSE o[1]
JsonNum(o) == IF o = NoneV THEN "null" ELSE ToString(o[1])

\* convert_photo_metadata, serialized
MetadataJson(metadata) ==
    "{date:" \o JsonStr(metadata.date_taken) \o ",gps:" \o
    (IF metadata.gps = NoneV THEN "null"
     ELSE LET g == metadata.gps[1]
          IN  "{lat:" \o JsonNum(g.latitude) \o ",lon:" \o JsonNum(g.longitude)
              \o ",display:" \o JsonStr(g.display) \o ",city:" \o JsonStr(g.city)
              \o ",region:" \o JsonStr(g.region) \o ",country:" \o JsonStr(g.country)
              \o ",cc:" \o JsonStr(g.country_code) \o ",flag:" \o JsonStr(g.flag)
              \o "}")
    \o "}"

\* one PhotoData of build_gallery_data
PhotoData(albums, photo, gps_mode) ==
    With(find_album_path_for_photo(albums, photo), LAMBDA album_path :
        [stem |-> photo.stem, hash |-> photo.hash,
         width |-> photo.width, height |-> photo.height,
         image_path |-> Photo_image_path(photo, album_path),
         thumb_path |-> Photo_thumb_path(photo, album_path),
         original_path |-> Photo_original_path(photo, album_path, gps_mode),
         html_path |-> Photo_html_path(photo, album_path),
         metadata |-> MetadataJson(photo.metadata)])

\* photos.rs titlecase of a directory name (single-word names: first letter
\* upper-cased)
titlecase(dir_name) ==
    CASE dir_name = "a" -> "A" [] dir_name = "b" -> "B" [] dir_name = "c" -> "C"
      [] OTHER -> dir_name

\* one AlbumData of build_gallery_data (slug: the lower-cased name, which the
\* directory names of this model already are)
AlbumData(path) ==
    [name |-> titlecase(FileName(path)), slug |-> FileName(path),
     path |-> url_encode_path(path)]

\* build_gallery_data: albums from root.children, photos from all_photos
build_gallery_data(albums, gps_mode) ==
    With(children(albums, <<>>), LAMBDA cs :
    With(all_photos(albums, <<>>), LAMBDA ps :
        [albums |-> [i \in 1..Len(cs) |-> AlbumData(cs[i])],
         photos |-> [i \in 1..Len(ps) |-> PhotoData(albums, ps[i].photo, gps_mode)]]))

\* serde_json::to_string(&gallery_data): structs and Vecs serialize in
\* declaration and index order
RECURSIVE AlbumsJson(_)
AlbumsJson(as) ==
    IF as = <<>> THEN ""
    ELSE "{" \o Head(as).name \o "," \o Head(as).slug \o "," \o Head(as).path \o "}"
         \o AlbumsJson(Tail(as))
RECURSIVE PhotosJson(_)
PhotosJson(ps) ==
    IF ps = <<>> THEN ""
    ELSE LET d == Head(ps)
         IN  "{" \o d.stem \o "," \o d.hash \o "," \o ToString(d.width) \o "x"
             \o ToString(d.height) \o "," \o d.image_path \o "," \o d.thumb_path
             \o "," \o d.original_path \o "," \o d.html_path \o "," \o d.metadata
             \o "}" \o PhotosJson(Tail(ps))
GalleryJson(g) == "{albums:[" \o AlbumsJson(g.albums) \o "],photos:["
                  \o PhotosJson(g.photos) \o "]}"

Seeds == {"k1", "k2"}

\* i18n.rs get_all_translations: the language codes of the returned map
Languages == <<"en", "zh_CN">>

\* serde_json::to_string of one language's HashMap<String, String>: the
\* entries come in the map's iteration order, which its RandomState decides
TranslationsJson(lang_code, keys) ==
    IF keys = "k1"
    THEN "{nav.next:" \o lang_code \o ",nav.previous:" \o lang_code \o "}"
    ELSE "{nav.previous:" \o lang_code \o ",nav.next:" \o lang_code \o "}"

\* a step of a fallible sequence of writes: st = [ok, fs, expected, urls]
Emit(st, path, content, key, url) ==
    IF ~st.ok THEN st
    ELSE With(write(st.fs, path, content), LAMBDA w :
             IF ~w.ok THEN [st EXCEPT !.ok = FALSE]
             ELSE [ok |-> TRUE, fs |-> w.fs, expected |-> st.expected \cup {path},
                   urls |-> [k \in DOMAIN st.urls \cup {key} |->
                                IF k = key THEN url ELSE st.urls[k]]])

MkDir(st, dir) ==
    IF ~st.ok THEN st
    ELSE LET c == create_dir_all(st.fs, dir)
         IN  [st EXCEPT !.ok = c.ok, !.fs = c.fs]

\* the per-language loop of generate_data_files
RECURSIVE EmitLanguages(_, _, _)
EmitLanguages(st, langs, keys) ==
    IF langs = <<>> THEN st
    ELSE LET lang_code == Head(langs)
             lang_json == TranslationsJson(lang_code, keys)
             lang_filename == lang_code \o "-" \o blake3_hex8(lang_json) \o ".json"
         IN  EmitLanguages(
                 Emit(st, <<"static", "i18n", lang_filename>>,
                      Blob("json", lang_json, 0), lang_code,
                      "/static/i18n/" \o lang_filename),
                 Tail(langs), keys)

\* generate_data_files: [ok, fs, expected, manifest]
generate_data_files(fs, exp, albums, gps_mode, keys) ==
    LET s0 == [ok |-> TRUE, fs |-> fs, expected |-> exp, urls |-> <<>>]
        s1 == MkDir(MkDir(s0, <<"static">>), <<"static", "i18n">>)
    IN  With(EmitLanguages(s1, Languages, keys), LAMBDA s2 :
        With(GalleryJson(build_gallery_data(albums, gps_mode)), LAMBDA gallery_json :
        With("gallery-" \o blake3_hex8(gallery_json) \o ".json", LAMBDA gallery_filename :
        With(Emit([s2 EXCEPT !.urls = <<>>], <<"static", gallery_filename>>,
                  Blob("json", gallery_json, 0), "gallery",
                  "/static/" \o gallery_filename), LAMBDA s3 :
        [ok |-> s3.ok, fs |-> s3.fs, expected |-> s3.expected,
         manifest |-> IF s3.ok THEN [i18n |-> s2.urls, gallery |-> s3.urls["gallery"]]
                      ELSE [i18n |-> <<>>, gallery |-> ""]]))))

----------------------------------------------------------------------------
(* pipeline.rs: static assets *)

config_minify == TRUE

\* process_static_file: css and js are minified when config.minify is set
process_static_file(file, should_minify) ==
    IF should_minify /\ file.ext \in {"css", "js"} THEN Blob("minified", file.data, 0)
    ELSE Blob("bytes", file.data, 0)

\* relative_path of copy_dir_with_hashing: the components joined by '/'
RECURSIVE display(_)
display(path) ==
    IF Len(path) = 1 THEN path[1] ELSE Head(path) \o "/" \o display(Tail(path))

\* hash_filename: stem-hash.ext (the names of this model have an extension)
hash_filename(file, contents) ==
    file.stem \o "-" \o blake3_hex8(contents.kind \o ":" \o contents.of) \o "." \o file.ext

\* name.starts_with('.')
is_hidden(file) == file.stem = ""

\* copy_dir_with_hashing over the files of the static directory, each
\* written under dest at its own relative directory
RECURSIVE copy_dir_with_hashing(_, _, _)
copy_dir_with_hashing(st, todo, should_minify) ==
    IF todo = {} THEN st
    ELSE LET file == CHOOSE f \in todo : TRUE
         IN  IF is_hidden(file)
             THEN copy_dir_with_hashing(st, todo \ {file}, should_minify)
             ELSE
         LET output == process_static_file(file, should_minify)
             hashed_name == hash_filename(file, output)
             entry_relative == IF file.dir = <<>> THEN file.stem \o "." \o file.ext
                               ELSE display(file.dir) \o "/" \o file.stem
                                    \o "." \o file.ext
             hashed_relative == IF file.dir = <<>> THEN "/static/" \o hashed_name
                                ELSE "/static/" \o display(file.dir) \o "/"
                                     \o hashed_name
         IN  copy_dir_with_hashing(
                 Emit(MkDir(st, <<"static">> \o file.dir),
                      Join(<<"static">> \o file.dir, hashed_name), output,
                      entry_relative, hashed_relative),
                 todo \ {file}, should_minify)

\* the StaticSource::Builtin arm of copy_static: embedded_dir.files() are
\* the files directly in the embedded static/ directory, each written
\* directly under dest and keyed by its file name
RECURSIVE copy_embedded(_, _, _)
copy_embedded(st, todo, should_minify) ==
    IF todo = {} THEN st
    ELSE LET file == CHOOSE f \in todo : TRUE
         IN  IF is_hidden(file)
             THEN copy_embedded(st, todo \ {file}, should_minify)
             ELSE
         LET contents == process_static_file(file, should_minify)
             hashed_name == hash_filename(file, contents)
         IN  copy_embedded(
                 Emit(st, <<"static", hashed_name>>, contents,
                      file.stem \o "." \o file.ext, "/static/" \o hashed_name),
                 todo \ {file}, should_minify)

\* Dir::files of include_dir: the immediate files of the directory
embedded_files(dir_files) == {f \in dir_files : f.dir = <<>>}

\* copy_static: [ok, fs, expected, urls (the AssetManifest)]
copy_static(fs, exp, th) ==
    LET s0 == [ok |-> TRUE, fs |-> fs, expected |-> exp, urls |-> <<>>]
    IN  IF th.static_source = "directory"
        THEN copy_dir_with_hashing(MkDir(s0, <<"static">>), StaticFiles, config_minify)
        ELSE IF th.static_source = "builtin"
        THEN copy_embedded(MkDir(s0, <<"static">>),
                           embedded_files(BuiltinStaticFiles), config_minify)
        ELSE s0

----------------------------------------------------------------------------
(* pipeline.rs: pages *)

\* the data_urls.i18n of the context: HashMap<String, String> as a string
RECURSIVE I18nUrls(_, _)
I18nUrls(urls, codes) ==
    IF codes = <<>> THEN ""
    ELSE (IF Head(codes) \in DOMAIN urls THEN urls[Head(codes)] ELSE "") \o "|"
         \o I18nUrls(urls, Tail(codes))

\* the languages of the context: config.languages()
RECURSIVE LangCodes(_)
LangCodes(langs) ==
    IF langs = <<>> THEN "" ELSE Head(langs) \o "," \o LangCodes(Tail(langs))

\* base_context: the part of the template context every page shares; mf is
\* the DataManifest with the site's languages
base_context(mf) ==
    mf.gallery \o "|" \o I18nUrls(mf.i18n, Languages) \o LangCodes(mf.languages)

\* templates.render followed by minify::html: the page is a function of the
\* template and its context
render(template, context) ==
    Blob(IF config_minify THEN "minhtml" ELSE "html", template \o "|" \o context, 0)

\* one PhotoWithPaths of render_index
PhotoWithPaths(albums, photo, gps_mode) ==
    With(find_album_path_for_photo(albums, photo), LAMBDA album_path :
        [photo |-> photo,
         image_path |-> Photo_image_path(photo, album_path),
         thumb_path |-> Photo_thumb_path(photo, album_path),
         original_path |-> Photo_original_path(photo, album_path, gps_mode),
         html_path |-> Photo_html_path(photo, album_path)])

\* the "photos" of the index context: all_photos with their paths
index_photos(albums, gps_mode) ==
    With(all_photos(albums, <<>>), LAMBDA ps :
        [i \in 1..Len(ps) |-> PhotoWithPaths(albums, ps[i].photo, gps_mode)])

\* the "photos" of the index context as the template sees them
RECURSIVE PhotosContext(_)
PhotosContext(ps) ==
    IF ps = <<>> THEN ""
    ELSE Head(ps).photo.stem \o "," \o Head(ps).photo.hash \o ","
         \o Head(ps).image_path \o "," \o Head(ps).thumb_path \o ","
         \o Head(ps).original_path \o "," \o Head(ps).html_path \o ";"
         \o PhotosContext(Tail(ps))

\* the three kinds of page: the rendered template over its context
index_page(albums, gps_mode, mf) ==
    render("index.html",
           base_context(mf) \o "|" \o PhotosContext(index_photos(albums, gps_mode)))
album_page(album, mf) ==
    render("album.html", base_context(mf) \o "|" \o url_encode_path(album))
photo_page(photo, album, mf) ==
    render("photo.html",
           base_context(mf) \o "|" \o Photo_html_path(photo, album) \o "|" \o photo.hash)

\* render_index
render_index(fs, exp, albums, gps_mode, mf) ==
    Emit([ok |-> TRUE, fs |-> fs, expected |-> exp, urls |-> <<>>],
         <<"index.html">>, index_page(albums, gps_mode, mf), "index", "index.html")

\* render_album_recursive over the non-root albums, parents first
RECURSIVE render_album_recursive(_, _, _)
render_album_recursive(st, todo, mf) ==
    IF todo = <<>> THEN st
    ELSE LET album == Head(todo)
         IN  render_album_recursive(
                 IF album = <<>> THEN st
                 ELSE Emit(MkDir(st, album), Join(album, "index.html"),
                           album_page(album, mf), "album", "index.html"),
                 Tail(todo), mf)

\* render_photos_in_album: one page per photo, with its neighbours
RECURSIVE render_photos_in_album(_, _, _, _)
render_photos_in_album(st, albums, todo, mf) ==
    IF todo = <<>> THEN st
    ELSE LET album == Head(todo).album
             photo == Head(todo).photo
             dest == Join(album, photo.stem \o ".html")
         IN  render_photos_in_album(
                 Emit(IF album = <<>> THEN st ELSE MkDir(st, album), dest,
                      photo_page(photo, album, mf), "photo", "photo.html"),
                 albums, Tail(todo), mf)

----------------------------------------------------------------------------
(* pipeline.rs: reconciliation *)

RECURSIVE cleanup_recursive(_, _, _)
RECURSIVE cleanup_entries(_, _, _)
\* the for loop of cleanup_recursive over the entries read before it starts
cleanup_entries(fs, entries, exp) ==
    IF entries = {} THEN fs
    ELSE With(CHOOSE e \in entries : TRUE, LAMBDA path :
             cleanup_entries(
                 IF is_dir(fs, path)
                 THEN With(cleanup_recursive(fs, path, exp), LAMBDA g :
                          IF read_dir(g, path) = {} THEN remove_dir(g, path) ELSE g)
                 ELSE IF path \notin exp THEN remove_file(fs, path)
                 ELSE fs,
                 entries \ {path}, exp))
\* cleanup_recursive
cleanup_recursive(fs, dir, exp) == cleanup_entries(fs, read_dir(fs, dir), exp)

----------------------------------------------------------------------------
(* watch.rs: paths, events and the event filter *)

\* the working directory of the process, and the site directories the user
\* may name with -C (the default is ".")
Cwd == <<"/", "site">>
SiteDirs == {<<".">>, Cwd}

\* config.photos and the values of config.build; discover skips the hidden
\* directory photos/.site, the watcher of the photos directory does not
PhotosRel == <<"photos">>
Builds == {<<"dist">>, <<"photos", ".site">>}

\* the names of the model whose first character is '.', and those that are
\* not valid Unicode
DotNames == {".DS_Store", ".site", ".swp<FF>"}
NotUnicode == {".swp<FF>", "raw<FF>.jpg"}

\* Path::file_name: the last component, None for a path that ends in the root
file_name(path) ==
    IF path = <<>> \/ FileName(path) = "/" THEN NoneV ELSE Some(FileName(path))

\* OsStr::to_str: None unless the name is valid Unicode
to_str(name) == IF name \in NotUnicode THEN NoneV ELSE Some(name)

\* str::starts_with('.')
starts_with_dot(name) == name \in DotNames

\* Path::starts_with: whole components
Path_starts_with(path, base) == IsPrefix(base, path)

\* the path with the working directory in front of a relative one
absolute(path) ==
    IF path # <<>> /\ path[1] = "/" THEN path
    ELSE Cwd \o SelectSeq(path, LAMBDA c : c # ".")

\* Path::canonicalize: an Err for a path that does not exist
canonicalize(path, found) == IF found THEN Some(absolute(path)) ELSE NoneV

\* notify::Event
EventKinds == {"Access", "Create", "Modify", "Remove", "Other"}
Event(kind, paths) == [kind |-> kind, paths |-> paths]

\* should_ignore_event: the loop over event.paths
RECURSIVE ignore_paths(_, _)
ignore_paths(paths, out) ==
    IF paths = <<>> THEN FALSE
    ELSE LET path == Head(paths)
             name == IF file_name(path) = NoneV THEN NoneV
                     ELSE to_str(file_name(path)[1])
         IN  IF Path_starts_with(path, out) THEN TRUE
             ELSE IF name # NoneV /\ starts_with_dot(name[1]) THEN TRUE
             ELSE ignore_paths(Tail(paths), out)

\* should_ignore_event
should_ignore_event(event, out) ==
    IF event.kind \notin {"Create", "Modify", "Remove"} THEN TRUE
    ELSE ignore_paths(event.paths, out)

\* the directories of the site as the watcher reports them
PhotosAbs == absolute(site_dir \o PhotosRel)
ConfigAbs == absolute(Join(site_dir, "site.toml"))
OutputAbs == absolute(site_dir \o build)

ThemeAbs == absolute(Join(site_dir, theme.name))

\* the watcher is set up
Watching == wpc \in {"waiting", "rebuild", "building"}

\* the path lies in what the watcher watches: the photos directory
\* (recursive), the config file, the directory of a local theme (recursive)
Watched(path) ==
    \/ Path_starts_with(path, PhotosAbs)
    \/ path = ConfigAbs
    \/ theme.resolves = "local" /\ Path_starts_with(path, ThemeAbs)

\* tx.send(event): the event joins the channel
Arrive(event) ==
    LET rel == ~should_ignore_event(event, output_dir)
        b == IF ~rel THEN 0
             ELSE IF burst > 0 /\ gap < Debounce THEN burst ELSE burst + 1
    IN  /\ rx' = Append(rx, [event |-> event, burst |-> b])
        /\ burst' = IF rel THEN b ELSE burst
        /\ gap' = IF rel THEN 0 ELSE gap
        /\ owed' = IF rel /\ wpc \in {"rebuild", "building"} THEN "owed" ELSE owed

\* what a step of the build changed in the output directory
Touched ==
    ((expected' \ expected) \cap DOMAIN files')
        \cup {p \in DOMAIN files' : p \notin DOMAIN files \/ files'[p] # files[p]}
        \cup (DOMAIN files \ DOMAIN files')
        \cup (dirs' \ dirs) \cup (dirs \ dirs')

\* the watcher's callback for a step of the build: one event for what the
\* step wrote or deleted, when the output directory lies in a watched one
Notify ==
    IF Watching /\ Watched(OutputAbs) /\ Touched # {}
    THEN Arrive(Event("Modify", <<OutputAbs \o (CHOOSE p \in Touched : TRUE)>>))
    ELSE UNCHANGED <<rx, burst, gap, owed>>

\* no watch process
WatchOff ==
    /\ site_dir = <<".">>
    /\ build = <<"dist">>
    /\ wpc = "off"
    /\ output_dir = <<>>
    /\ rx = <<>>
    /\ needs_rebuild = FALSE
    /\ elapsed = 0
    /\ gap = 0
    /\ burst = 0
    /\ got = <<>>
    /\ served = {}
    /\ sent = 0
    /\ owed = "none"

watchCtl == <<site_dir, build, wpc, output_dir, needs_rebuild, elapsed, got,
              served, sent>>
watchCtl_but_sent == <<site_dir, build, wpc, output_dir, needs_rebuild, elapsed,
                       got, served>>

----------------------------------------------------------------------------
(* Initial states *)

\* entries a previous life of the output directory may have left behind; the
\* path <<>> stands for a regular file where the output directory should be,
\* <<"a">> for one where the pages of album a should go
StaleCandidates ==
    { <<>>, <<"images">>, <<"images", "a">>, <<"static">>, <<"old.html">>,
      <<"a">>, <<"images", "zz", "x-00000000-thumb.webp">> }

InitialOutputs ==
    { [files |-> [p \in S |-> Blob("stale", "", 0)],
       dirs |-> UNION {Ancestors(Parent(p)) : p \in S \ {<<>>}}] :
      S \in {T \in SUBSET StaleCandidates :
                /\ Cardinality(T) <= MaxStale
                /\ \A p, q \in T : p # q => ~IsPrefix(p, q)} }

ZeroStats == [total |-> 0, cached |-> 0, generated |-> 0, copied |-> 0, skipped |-> 0]
DataManifest_default == [i18n |-> <<>>, gallery |-> ""]

Init ==
    /\ src \in Sources
    /\ gps \in GpsModes
    /\ \E site \in Sites :
          /\ theme = CHOOSE t \in Themes : t.name = site.theme
          /\ languages = site.languages
    /\ \E o \in InitialOutputs : files = o.files /\ dirs = o.dirs
    /\ root = <<>>
    /\ expected = {}
    /\ manifest = DataManifest_default
    /\ asset_manifest = <<>>
    /\ error = NoneV
    /\ pc = "idle"
    /\ stack = <<>>
    /\ cur = NoneV
    /\ pending = {}
    /\ tasks = <<>>
    /\ stats = ZeroStats
    /\ seed = "k1"
    /\ builds = 0
    /\ log = <<>>
    /\ dirfail = {}
    /\ prev = [ran |-> FALSE, ok |-> FALSE, files |-> <<>>, dirs |-> {},
               change |-> "none"]
    /\ change = "none"
    /\ WatchOff

----------------------------------------------------------------------------
(* Actions: one process run = Pipeline::load, then Pipeline::build *)

Resting == pc \in {"idle", "done", "failed"}

\* Theme::load and Theme::from_builtin: the error, if any
Theme_load(th) == IF th.has_index_template THEN NoneV ELSE Some("MissingIndexTemplate")

\* discover with a fault: the photo_count() == 0 check is missing
discover_result_unchecked(tree) == [error |-> NoneV, root |-> discover(tree)]

\* discover as a Result: Err(NoPhotos) when the tree holds no photo
discover_result(tree) ==
    IF photo_count(discover(tree), <<>>) = 0
    THEN [error |-> Some("NoPhotos"), root |-> <<>>]
    ELSE [error |-> NoneV, root |-> discover(tree)]

\* Pipeline::load: the theme (a local directory first, then a built-in
\* one), then the photos; [error, root]
Pipeline_load(th, tree) ==
    IF th.resolves = "none" THEN [error |-> Some("ThemeNotFound"), root |-> <<>>]
    ELSE IF Theme_load(th) # NoneV THEN [error |-> Theme_load(th), root |-> <<>>]
    ELSE discover_result(tree)

\* do_build may be called: by main (one process after the other), by watch
\* for the initial build, by the event loop for a rebuild
MayLoad ==
    \/ wpc = "off" /\ builds < MaxBuilds
    \/ wpc = "initial" /\ builds = 0
    \/ wpc = "rebuild"

\* main.rs / watch.rs do_build: a new process loads the pipeline
Load ==
    /\ Resting
    /\ MayLoad
    /\ builds' = builds + 1
    /\ seed' \in Seeds
    /\ prev' = [ran |-> builds > 0, ok |-> pc = "done", files |-> files,
                dirs |-> dirs, change |-> change]
    /\ change' = "none"
    /\ \E r \in {Pipeline_load(theme, src)} :
          /\ error' = r.error
          /\ root' = r.root
          /\ pc' = IF r.error = NoneV THEN "loaded" ELSE "failed"
    /\ expected' = {}
    /\ manifest' = DataManifest_default
    /\ asset_manifest' = <<>>
    /\ stack' = <<>>
    /\ cur' = NoneV
    /\ pending' = {}
    /\ stats' = ZeroStats
    /\ log' = <<>>
    /\ dirfail' = {}
    /\ UNCHANGED <<tasks, src, gps, theme, languages, files, dirs>>
    /\ wpc' = IF wpc = "rebuild" THEN "building" ELSE wpc
    /\ UNCHANGED <<site_dir, build, output_dir, rx, needs_rebuild, elapsed, gap,
                   burst, got, served, sent, owed>>

\* Pipeline::build up to the call of process_album: the two create_dir_all
BuildStart ==
    /\ pc = "loaded"
    /\ LET c1 == create_dir_all(TheFs, <<>>)
           c2 == create_dir_all(c1.fs, ImagesDir)
       IN  IF c1.ok /\ c2.ok
           THEN /\ pc' = "processing"
                /\ stack' = << <<>> >>
                /\ dirs' = c2.fs.dirs
                /\ error' = error
           ELSE /\ pc' = "failed"
                /\ stack' = stack
                /\ dirs' = IF c1.ok THEN c1.fs.dirs ELSE dirs
                /\ error' = Some("Io")
    /\ UNCHANGED <<tasks, src, gps, theme, languages, files, root, expected, manifest,
                   asset_manifest, cur, pending, stats, seed, builds, log,
                   dirfail, prev, change>>
    /\ UNCHANGED watchCtl
    /\ Notify

\* process_album_recursive up to par_iter_mut: the album's images directory
BeginAlbum ==
    /\ pc = "processing"
    /\ cur = NoneV
    /\ stack # <<>>
    /\ LET album == Head(stack)
           c == IF album = <<>> THEN [ok |-> TRUE, fs |-> TheFs]
                ELSE create_dir_all(TheFs, album_images_dir(ImagesDir, album))
       IN  /\ stack' = Tail(stack)
           /\ dirs' = c.fs.dirs
           /\ IF c.ok
              THEN cur' = Some(album) /\ pending' = 1..Len(root[album])
                   /\ dirfail' = dirfail
              ELSE cur' = NoneV /\ pending' = {}
                   /\ dirfail' = dirfail \cup {album}
    /\ UNCHANGED <<tasks, src, gps, theme, languages, files, root, expected, manifest,
                   asset_manifest, error, pc, stats, seed, builds, log, prev,
                   change>>
    /\ UNCHANGED watchCtl
    /\ Notify

\* the counters after one task of the par_iter_mut closure
count_result(st, r) ==
    IF r.ok
    THEN [st EXCEPT
            !.total = @ + 1,
            !.cached = IF ~r.generated_webp /\ ~r.copied_original THEN @ + 1 ELSE @,
            !.generated = IF r.generated_webp THEN @ + 1 ELSE @,
            !.copied = IF r.copied_original THEN @ + 1 ELSE @]
    ELSE [st EXCEPT !.skipped = @ + 1]

\* mark_result with a fault: the Err arm forgets photo.hash.clear()
mark_result_keep(r) == r.photo

\* the photo after one task: an Err clears its hash
mark_result(r) == IF r.ok THEN r.photo ELSE [r.photo EXCEPT !.hash = ""]

\* the match on the result r of process_photo for photo i of the album
MatchResult(album, i, r) ==
    /\ root' = [root EXCEPT ![album][i] = mark_result(r)]
    /\ files' = r.fs.files
    /\ dirs' = r.fs.dirs
    /\ stats' = count_result(stats, r)
    /\ log' = [k \in DOMAIN log \cup {r.photo.source} |->
                  IF k = r.photo.source
                  THEN [ok |-> r.ok, hit |-> r.hit, decoded |-> r.decoded,
                        wrote |-> r.wrote,
                        generated_webp |-> r.generated_webp,
                        copied_original |-> r.copied_original]
                  ELSE log[k]]

\* one task of album.photos.par_iter_mut().for_each
ProcessPhoto(i) ==
    /\ pc = "processing"
    /\ cur # NoneV
    /\ i \in pending
    /\ MatchResult(cur[1], i,
                   process_photo(root[cur[1]][i], album_images_dir(ImagesDir, cur[1]),
                                 gps, TheFs, src))
    /\ pending' = pending \ {i}
    /\ UNCHANGED <<tasks, src, gps, theme, languages, expected, manifest,
                   asset_manifest, error, pc, stack, cur, seed, builds, dirfail,
                   prev, change>>
    /\ UNCHANGED watchCtl
    /\ Notify

\* album.photos.retain(|p| !p.hash.is_empty())
retain(photos) == SelectSeq(photos, LAMBDA p : p.hash # "")

\* process_album_recursive after the parallel loop: retain, then the children
EndAlbum ==
    /\ pc = "processing"
    /\ cur # NoneV
    /\ pending = {}
    /\ root' = [root EXCEPT ![cur[1]] = retain(@)]
    /\ stack' = children(root, cur[1]) \o stack
    /\ cur' = NoneV
    /\ UNCHANGED <<tasks, src, gps, theme, languages, files, dirs, expected, manifest,
                   asset_manifest, error, pc, pending, stats, seed, builds, log,
                   dirfail, prev, change>>
    /\ UNCHANGED watchVars

\* process_album has returned: collect_expected_images
CollectExpectedImages ==
    /\ pc = "processing"
    /\ cur = NoneV
    /\ stack = <<>>
    /\ expected' = expected \cup collect_album_images(root, <<>>, ImagesDir, gps)
    /\ pc' = "collected"
    /\ UNCHANGED <<tasks, src, gps, theme, languages, files, dirs, root, manifest,
                   asset_manifest, error, stack, cur, pending, stats, seed,
                   builds, log, dirfail, prev, change>>
    /\ UNCHANGED watchVars

\* the albums in the order the recursive renderers visit them
album_preorder(albums) == SortBy(DOMAIN albums, AlbumOrder)

\* what base_context reads: the DataManifest and config.languages()
DataUrls == [i18n |-> manifest.i18n, gallery |-> manifest.gallery,
             languages |-> languages]

\* Stage with a fault: a failing stage sweeps the output directory against
\* the expected set collected so far before it returns the Err
Stage_sweeping(st, next) ==
    /\ \E fs1 \in {IF st.ok THEN st.fs
                   ELSE cleanup_recursive(st.fs, <<>>, expected)} :
          files' = fs1.files /\ dirs' = fs1.dirs
    /\ expected' = IF st.ok THEN st.expected ELSE expected
    /\ pc' = IF st.ok THEN next ELSE "failed"
    /\ error' = IF st.ok THEN error ELSE Some("Io")

\* one fallible stage of build: st = [ok, fs, expected, ...]; an Err is
\* returned by ? and leaves what was written so far
Stage(st, next) ==
    /\ files' = st.fs.files
    /\ dirs' = st.fs.dirs
    /\ expected' = IF st.ok THEN st.expected ELSE expected
    /\ pc' = IF st.ok THEN next ELSE "failed"
    /\ error' = IF st.ok THEN error ELSE Some("Io")

GenerateDataFiles ==
    /\ pc = "collected"
    /\ \E st \in {generate_data_files(TheFs, expected, root, gps, seed)} :
          Stage(st, "data") /\ manifest' = st.manifest
    /\ UNCHANGED <<tasks, src, gps, theme, languages, root, asset_manifest, stack, cur,
                   pending, stats, seed, builds, log, dirfail, prev, change>>
    /\ UNCHANGED watchCtl
    /\ Notify

CopyStatic ==
    /\ pc = "data"
    /\ \E st \in {copy_static(TheFs, expected, theme)} :
          Stage(st, "static") /\ asset_manifest' = IF st.ok THEN st.urls ELSE <<>>
    /\ UNCHANGED <<tasks, src, gps, theme, languages, root, manifest, stack, cur,
                   pending, stats, seed, builds, log, dirfail, prev, change>>
    /\ UNCHANGED watchCtl
    /\ Notify

RenderIndex ==
    /\ pc = "static"
    /\ Stage(render_index(TheFs, expected, root, gps, DataUrls), "index")
    /\ UNCHANGED <<tasks, src, gps, theme, languages, root, manifest, asset_manifest,
                   stack, cur, pending, stats, seed, builds, log, dirfail, prev,
                   change>>
    /\ UNCHANGED watchCtl
    /\ Notify

\* render_albums, when the theme has an album template
RenderAlbums ==
    /\ pc = "index"
    /\ LET s0 == [ok |-> TRUE, fs |-> TheFs, expected |-> expected, urls |-> <<>>]
       IN  Stage(IF theme.has_album_template
                 THEN render_album_recursive(s0, album_preorder(root), DataUrls)
                 ELSE s0, "albums")
    /\ UNCHANGED <<tasks, src, gps, theme, languages, root, manifest, asset_manifest,
                   stack, cur, pending, stats, seed, builds, log, dirfail, prev,
                   change>>
    /\ UNCHANGED watchCtl
    /\ Notify

\* render_photos, when the theme has a photo template
RenderPhotos ==
    /\ pc = "albums"
    /\ LET s0 == [ok |-> TRUE, fs |-> TheFs, expected |-> expected, urls |-> <<>>]
       IN  Stage(IF theme.has_photo_template
                 THEN render_photos_in_album(s0, root, all_photos(root, <<>>), DataUrls)
                 ELSE s0, "rendered")
    /\ UNCHANGED <<tasks, src, gps, theme, languages, root, manifest, asset_manifest,
                   stack, cur, pending, stats, seed, builds, log, dirfail, prev,
                   change>>
    /\ UNCHANGED watchCtl
    /\ Notify

\* Cleanup with a fault: reconciliation runs right after the index page
Cleanup_early ==
    /\ pc = "index"
    /\ \E fs1 \in {cleanup_recursive(TheFs, <<>>, expected)} :
          files' = fs1.files /\ dirs' = fs1.dirs
    /\ pc' = "done"
    /\ UNCHANGED <<tasks, src, gps, theme, languages, root, expected, manifest,
                   asset_manifest, error, stack, cur, pending, stats, seed,
                   builds, log, dirfail, prev, change>>
    /\ UNCHANGED watchCtl
    /\ Notify

\* cleanup_stale_files, then Ok(())
Cleanup ==
    /\ pc = "rendered"
    /\ \E fs1 \in {cleanup_recursive(TheFs, <<>>, expected)} :
          files' = fs1.files /\ dirs' = fs1.dirs
    /\ pc' = "done"
    /\ UNCHANGED <<tasks, src, gps, theme, languages, root, expected, manifest,
                   asset_manifest, error, stack, cur, pending, stats, seed,
                   builds, log, dirfail, prev, change>>
    /\ UNCHANGED watchCtl
    /\ Notify

----------------------------------------------------------------------------
(* The user between two builds *)

\* site.toml: gps = ...
SetGps(mode) ==
    /\ wpc = "off"
    /\ Resting
    /\ builds < MaxBuilds
    /\ change = "none"
    /\ mode # gps
    /\ gps' = mode
    /\ change' = "gps"
    /\ UNCHANGED <<tasks, src, theme, languages, files, dirs, root, expected, manifest,
                   asset_manifest, error, pc, stack, cur, pending, stats, seed,
                   builds, log, dirfail, prev>>
    /\ UNCHANGED watchVars

\* mv photos/a photos/b: every photo keeps its file name and bytes
rename_dir(dir, from, to) ==
    IF IsPrefix(from, dir) THEN to \o SubSeq(dir, Len(from) + 1, Len(dir)) ELSE dir

RenameAlbum ==
    /\ wpc = "off"
    /\ Resting
    /\ builds < MaxBuilds
    /\ change = "none"
    /\ \E s \in src : IsPrefix(<<"a">>, s.dir)
    /\ src' = {[s EXCEPT !.dir = rename_dir(s.dir, <<"a">>, <<"b">>)] : s \in src}
    /\ change' = "rename"
    /\ UNCHANGED <<tasks, gps, theme, languages, files, dirs, root, expected, manifest,
                   asset_manifest, error, pc, stack, cur, pending, stats, seed,
                   builds, log, dirfail, prev>>
    /\ UNCHANGED watchVars

Next ==
    \/ Load
    \/ BuildStart
    \/ BeginAlbum
    \/ \E i \in pending : ProcessPhoto(i)
    \/ EndAlbum
    \/ CollectExpectedImages
    \/ GenerateDataFiles
    \/ CopyStatic
    \/ RenderIndex
    \/ RenderAlbums
    \/ RenderPhotos
    \/ Cleanup
    \/ \E mode \in GpsModes : SetGps(mode)
    \/ RenameAlbum

Spec == Init /\ [][Next]_vars

----------------------------------------------------------------------------
(* watch.rs: watch, watch_and_rebuild *)

\* the photo trees the watch process is started on: one photo or none
OnePhoto == {[dir |-> <<>>, stem |-> "p", ext |-> "jpg", data |-> "d1"]}
WatchSources == {{}, OnePhoto}

\* a site no build has run on: a theme with the index template only, an
\* output directory that does not exist
FreshSite(sources) ==
    /\ src \in sources
    /\ gps = "off"
    /\ theme = CHOOSE t \in Themes : t.name = "plain"
    /\ languages = <<"en">>
    /\ files = <<>> /\ dirs = {}
    /\ root = <<>>
    /\ expected = {}
    /\ manifest = DataManifest_default
    /\ asset_manifest = <<>>
    /\ error = NoneV
    /\ pc = "idle"
    /\ stack = <<>>
    /\ cur = NoneV
    /\ pending = {}
    /\ tasks = <<>>
    /\ stats = ZeroStats
    /\ seed = "k1"
    /\ builds = 0
    /\ log = <<>>
    /\ dirfail = {}
    /\ prev = [ran |-> FALSE, ok |-> FALSE, files |-> <<>>, dirs |-> {},
               change |-> "none"]
    /\ change = "none"

\* galerie watch, before the initial build
WatchStart(sources, site_dirs, build_dirs) ==
    /\ FreshSite(sources)
    /\ site_dir \in site_dirs
    /\ build \in build_dirs
    /\ wpc = "initial"
    /\ output_dir = <<>>
    /\ rx = <<>>
    /\ needs_rebuild = FALSE
    /\ elapsed = 0
    /\ gap = 0
    /\ burst = 0
    /\ got = <<>>
    /\ served = {}
    /\ sent = 0
    /\ owed = "none"

\* the output directory is ./dist, outside of what is watched
WatchInit == WatchStart(WatchSources, SiteDirs, {<<"dist">>})

\* watch_and_rebuild up to the event loop: output_dir is computed once, the
\* watcher is set up, needs_rebuild = false
StartWatching ==
    /\ wpc = "initial"
    /\ builds = 1
    /\ Resting
    /\ \E c \in {canonicalize(site_dir \o build, exists(TheFs, <<>>))} :
          output_dir' = IF c # NoneV THEN c[1] ELSE site_dir \o build
    /\ wpc' = "waiting"
    /\ needs_rebuild' = FALSE
    /\ elapsed' = 0
    /\ UNCHANGED <<site_dir, build, rx, gap, burst, got, served, sent, owed>>
    /\ UNCHANGED buildVars

\* rx.recv_timeout returned Ok(event)
Recv ==
    /\ wpc = "waiting"
    /\ rx # <<>>
    /\ \E ignored \in {should_ignore_event(Head(rx).event, output_dir)} :
          /\ needs_rebuild' = (needs_rebuild \/ ~ignored)
          /\ got' = IF ignored THEN got ELSE Append(got, Head(rx).burst)
    /\ rx' = Tail(rx)
    /\ elapsed' = 0
    /\ UNCHANGED <<site_dir, build, wpc, output_dir, gap, burst, served, sent, owed>>
    /\ UNCHANGED buildVars

\* one tick of time goes by; a waiting recv_timeout returns before the next
\* tick when an event is in the channel or the debounce period is over
Tick ==
    /\ Watching
    /\ wpc = "waiting" => rx = <<>> /\ elapsed < Debounce
    /\ elapsed' = IF wpc = "waiting" THEN elapsed + 1 ELSE elapsed
    /\ gap' = IF gap < Debounce THEN gap + 1 ELSE gap
    /\ UNCHANGED <<site_dir, build, wpc, output_dir, rx, needs_rebuild, burst, got,
                   served, sent, owed>>
    /\ UNCHANGED buildVars

\* Timeout with a fault: do_build is called at every timeout
Timeout_always ==
    /\ wpc = "waiting"
    /\ rx = <<>>
    /\ elapsed = Debounce
    /\ builds < MaxWatchBuilds
    /\ wpc' = "rebuild"
    /\ served' = served \cup SeqToSet(got)
    /\ owed' = IF owed = "owed" THEN "paid" ELSE owed
    /\ UNCHANGED <<site_dir, build, output_dir, rx, needs_rebuild, elapsed, gap,
                   burst, got, sent>>
    /\ UNCHANGED buildVars

\* rx.recv_timeout returned Err(Timeout): do_build is called when
\* needs_rebuild is set, else the loop waits again
Timeout ==
    /\ wpc = "waiting"
    /\ rx = <<>>
    /\ elapsed = Debounce
    /\ IF needs_rebuild
       THEN /\ builds < MaxWatchBuilds
            /\ wpc' = "rebuild"
            /\ served' = served \cup SeqToSet(got)
            /\ owed' = IF owed = "owed" THEN "paid" ELSE owed
            /\ elapsed' = elapsed
       ELSE /\ elapsed' = 0
            /\ UNCHANGED <<wpc, served, owed>>
    /\ UNCHANGED <<site_dir, build, output_dir, rx, needs_rebuild, gap, burst, got,
                   sent>>
    /\ UNCHANGED buildVars

\* BuildReturn with a fault: the events sent during the build are dropped
BuildReturn_drain ==
    /\ wpc = "building"
    /\ Resting
    /\ needs_rebuild' = FALSE
    /\ wpc' = "waiting"
    /\ elapsed' = 0
    /\ got' = <<>>
    /\ rx' = <<>>
    /\ UNCHANGED <<site_dir, build, output_dir, gap, burst, served, sent, owed>>
    /\ UNCHANGED buildVars

\* do_build returned, Ok or Err: needs_rebuild = false, the loop waits again
BuildReturn ==
    /\ wpc = "building"
    /\ Resting
    /\ needs_rebuild' = FALSE
    /\ wpc' = "waiting"
    /\ elapsed' = 0
    /\ got' = <<>>
    /\ UNCHANGED <<site_dir, build, output_dir, rx, gap, burst, served, sent, owed>>
    /\ UNCHANGED buildVars

----------------------------------------------------------------------------
(* The user while the site is watched *)

\* a photo is written into the photos directory
Touch ==
    /\ Watching
    /\ sent < MaxEvents
    /\ sent' = sent + 1
    /\ src' = IF \E s \in src : s.dir = <<>> /\ s.stem = "p" /\ s.ext = "jpg"
              THEN src
              ELSE src \cup {[dir |-> <<>>, stem |-> "p", ext |-> "jpg",
                              data |-> "d1"]}
    /\ Arrive(Event("Modify", <<Join(PhotosAbs, "p.jpg")>>))
    /\ UNCHANGED watchCtl_but_sent
    /\ UNCHANGED <<tasks, gps, theme, languages, files, dirs, root, expected, manifest,
                   asset_manifest, error, pc, stack, cur, pending, stats, seed,
                   builds, log, dirfail, prev, change>>

\* what else happens in the photos directory: a hidden file is created, a
\* photo is read
NoiseEvents ==
    { Event("Create", <<Join(PhotosAbs, ".DS_Store")>>),
      Event("Access", <<Join(PhotosAbs, "p.jpg")>>) }

Noise(event) ==
    /\ Watching
    /\ sent < MaxEvents
    /\ sent' = sent + 1
    /\ Arrive(event)
    /\ UNCHANGED watchCtl_but_sent
    /\ UNCHANGED buildVars

\* site.toml: build = "photos/.site"; the new output directory does not
\* exist yet
SetBuild ==
    /\ wpc = "waiting"
    /\ sent < MaxEvents
    /\ build = <<"dist">>
    /\ build' = <<"photos", ".site">>
    /\ files' = <<>>
    /\ dirs' = {}
    /\ sent' = sent + 1
    /\ Arrive(Event("Modify", <<ConfigAbs>>))
    /\ UNCHANGED <<tasks, site_dir, wpc, output_dir, needs_rebuild, elapsed, got, served>>
    /\ UNCHANGED <<src, gps, theme, languages, root, expected, manifest,
                   asset_manifest, error, pc, stack, cur, pending, stats, seed,
                   builds, log, dirfail, prev, change>>

\* a step of Pipeline::load or Pipeline::build
BuildStep ==
    \/ Load
    \/ BuildStart
    \/ BeginAlbum
    \/ \E i \in pending : ProcessPhoto(i)
    \/ EndAlbum
    \/ CollectExpectedImages
    \/ GenerateDataFiles
    \/ CopyStatic
    \/ RenderIndex
    \/ RenderAlbums
    \/ RenderPhotos
    \/ Cleanup

WatchNext ==
    \/ Load
    \/ BuildStart
    \/ BeginAlbum
    \/ \E i \in pending : ProcessPhoto(i)
    \/ EndAlbum
    \/ CollectExpectedImages
    \/ GenerateDataFiles
    \/ CopyStatic
    \/ RenderIndex
    \/ RenderAlbums
    \/ RenderPhotos
    \/ Cleanup
    \/ StartWatching
    \/ Recv
    \/ Tick
    \/ Timeout
    \/ BuildReturn
    \/ Touch
    \/ \E event \in NoiseEvents : Noise(event)

\* BuildStep is enabled: do_build may be called, or the pipeline is at a
\* step of load or build
BuildActive == (Resting /\ MayLoad) \/ pc \notin {"idle", "done", "failed"}

\* weak fairness of BuildStep, with its enabling condition written out
BuildFairness == []<>(~BuildActive) \/ []<><<BuildStep>>_vars

\* the event loop, the build and the clock go on; the user need not act
WatchFairness ==
    /\ BuildFairness
    /\ WF_vars(StartWatching)
    /\ WF_vars(Recv)
    /\ WF_vars(Tick)
    /\ WF_vars(Timeout)
    /\ WF_vars(BuildReturn)

WatchSpec == WatchInit /\ [][WatchNext]_vars /\ WatchFairness

\* the watch process when the user also edits site.toml, on sites whose
\* output directory may lie in the photos directory
ReloadInit == WatchStart(WatchSources, SiteDirs, Builds)

ReloadNext ==
    \/ Load
    \/ BuildStart
    \/ BeginAlbum
    \/ \E i \in pending : ProcessPhoto(i)
    \/ EndAlbum
    \/ CollectExpectedImages
    \/ GenerateDataFiles
    \/ CopyStatic
    \/ RenderIndex
    \/ RenderAlbums
    \/ RenderPhotos
    \/ Cleanup
    \/ StartWatching
    \/ Recv
    \/ Tick
    \/ Timeout
    \/ BuildReturn
    \/ Touch
    \/ \E event \in NoiseEvents : Noise(event)
    \/ SetBuild

ReloadSpec == ReloadInit /\ [][ReloadNext]_vars

----------------------------------------------------------------------------
(* watch.rs: should_ignore_event on the events the watcher may send *)

\* paths an event may carry: a photo, a hidden file, a hidden file and a
\* photo whose names are not valid Unicode, a page in ./dist, ./dist itself,
\* a page in photos/.site
FilterPaths ==
    { <<"/", "site", "photos", "p.jpg">>,
      <<"/", "site", "photos", ".DS_Store">>,
      <<"/", "site", "photos", ".swp<FF>">>,
      <<"/", "site", "photos", "raw<FF>.jpg">>,
      <<"/", "site", "dist", "index.html">>,
      <<"/", "site", "dist">>,
      <<"/", "site", "photos", ".site", "index.html">> }

FilterEvents ==
    { Event(kind, paths) :
        kind \in EventKinds,
        paths \in UNION {[1..n -> FilterPaths] : n \in 0..MaxPaths} }

\* values of output_dir: canonical ones, and one that is not
FilterOutputs ==
    { <<"/", "site", "dist">>, <<"/", "site", "photos", ".site">>, <<".", "dist">> }

\* the event loop with one event in the channel
FilterInit ==
    /\ FreshSite({OnePhoto})
    /\ site_dir = Cwd
    /\ build = <<"dist">>
    /\ wpc = "waiting"
    /\ output_dir \in FilterOutputs
    /\ \E event \in FilterEvents : rx = <<[event |-> event, burst |-> 0]>>
    /\ needs_rebuild = FALSE
    /\ elapsed = 0
    /\ gap = 0
    /\ burst = 0
    /\ got = <<>>
    /\ served = {}
    /\ sent = 0
    /\ owed = "none"

FilterNext == Recv

FilterSpec == FilterInit /\ [][FilterNext]_vars

----------------------------------------------------------------------------
(* processing.rs: the tasks of par_iter_mut, step by step *)

\* photo trees with two files of one stem in one album: a photo and a copy
\* of it under another extension
ParSources ==
    { { [dir |-> <<>>, stem |-> "p", ext |-> "jpg", data |-> "d1"],
        [dir |-> <<>>, stem |-> "p", ext |-> "jpeg", data |-> "d1"] },
      { [dir |-> <<>>, stem |-> "q", ext |-> "jpg", data |-> "d5"],
        [dir |-> <<"a">>, stem |-> "p", ext |-> "jpg", data |-> "d1"],
        [dir |-> <<"a">>, stem |-> "p", ext |-> "jpeg", data |-> "d1"] },
      { [dir |-> <<>>, stem |-> "p", ext |-> "jpg", data |-> "d1"],
        [dir |-> <<>>, stem |-> "q", ext |-> "jpg", data |-> "d5"],
        [dir |-> <<>>, stem |-> "r", ext |-> "jpg", data |-> "d4"] },
      { [dir |-> <<>>, stem |-> "p", ext |-> "jpg", data |-> "d1"],
        [dir |-> <<"a">>, stem |-> "p", ext |-> "jpeg", data |-> "d1"] } }

ParInit == FreshSite(ParSources) /\ WatchOff

\* process_photo returns at or before its cache check: the source cannot be
\* read, its header cannot be probed, or all four targets exist
returns_early(photo, need, tree) ==
    \/ read_source(tree, photo.source) = NoneV
    \/ DataInfo(read_source(tree, photo.source)[1]).dims = NoneV
    \/ ~need.micro /\ ~need.thumb /\ ~need.full /\ ~need.original

\* a task of par_iter_mut up to its cache check (and to its return when it
\* returns there)
CheckPhoto(i) ==
    /\ pc = "processing"
    /\ cur # NoneV
    /\ i \in pending
    /\ i \notin DOMAIN tasks
    /\ \E need \in {cache_check(root[cur[1]][i], album_images_dir(ImagesDir, cur[1]),
                                gps, TheFs, src)} :
          IF returns_early(root[cur[1]][i], need, src)
          THEN /\ MatchResult(cur[1], i,
                              process_photo_at(root[cur[1]][i],
                                               album_images_dir(ImagesDir, cur[1]),
                                               gps, need, TheFs, src))
               /\ pending' = pending \ {i}
               /\ tasks' = tasks
          ELSE /\ tasks' = [j \in DOMAIN tasks \cup {i} |->
                               IF j = i THEN need ELSE tasks[j]]
               /\ UNCHANGED <<root, files, dirs, stats, log, pending>>
    /\ UNCHANGED <<src, gps, theme, languages, expected, manifest,
                   asset_manifest, error, pc, stack, cur, seed, builds, dirfail,
                   prev, change>>
    /\ UNCHANGED watchVars

\* the same task from its cache check to its return: decode, the writes its
\* check asked for, the match on its result
WritePhoto(i) ==
    /\ pc = "processing"
    /\ cur # NoneV
    /\ i \in DOMAIN tasks
    /\ MatchResult(cur[1], i,
                   process_photo_at(root[cur[1]][i], album_images_dir(ImagesDir, cur[1]),
                                    gps, tasks[i], TheFs, src))
    /\ pending' = pending \ {i}
    /\ tasks' = [j \in DOMAIN tasks \ {i} |-> tasks[j]]
    /\ UNCHANGED <<src, gps, theme, languages, expected, manifest,
                   asset_manifest, error, pc, stack, cur, seed, builds, dirfail,
                   prev, change>>
    /\ UNCHANGED watchVars

ParNext ==
    \/ Load
    \/ BuildStart
    \/ BeginAlbum
    \/ \E i \in pending : CheckPhoto(i)
    \/ \E i \in pending : WritePhoto(i)
    \/ EndAlbum
    \/ CollectExpectedImages
    \/ GenerateDataFiles
    \/ CopyStatic
    \/ RenderIndex
    \/ RenderAlbums
    \/ RenderPhotos
    \/ Cleanup

ParSpec == ParInit /\ [][ParNext]_vars

----------------------------------------------------------------------------
(* Properties of a build *)

\* the build is past process_album: the album tree is final
Processed == pc \in {"collected", "data", "static", "index", "albums", "rendered", "done"}

\* Pipeline::build has returned Ok(()) and nothing was touched since
Built == pc = "done" /\ change = "none"

\* the photos of the final tree, each with its album
FinalPhotos ==
    UNION {{[album |-> a, photo |-> root[a][i]] : i \in 1..Len(root[a])} :
              a \in DOMAIN root}

\* C1: after build returns Ok, the regular files under the output directory
\* are exactly the expected-file set of that run, whatever the directory
\* held before.
C1_OutputIsExpected == pc = "done" => DOMAIN files = expected

\* C2: every photo left in the tree has its four target paths (micro, thumb,
\* full, original) in the expected-file set, and the reconciliation of the
\* same build deletes none of them.
C2_FourTargetsExpected ==
    (Processed /\ change = "none") =>
        \A ap \in FinalPhotos :
            LET dir == album_images_dir(ImagesDir, ap.album)
                targets == { micro_thumb_path(ap.photo, dir), thumb_path(ap.photo, dir),
                             full_path(ap.photo, dir),
                             original_path(ap.photo, dir, gps) }
            IN  /\ targets \subseteq expected
                /\ (pc = "done" /\ ap.photo.source \in DOMAIN log
                        => targets \subseteq DOMAIN files)

\* C7: when a directory the build needs cannot be created (the output root,
\* images/, or an album's directory under images/), the build aborts: it
\* never goes on to data emission, rendering or reconciliation.
C7_DirFailureAborts == dirfail # {} => ~Processed

\* this build directly follows a successful build, with the inputs (photos,
\* config, theme) untouched in between
Rebuild == prev.ran /\ prev.ok /\ prev.change = "none"

\* C3: build run twice in a row on unchanged inputs leaves the same output
\* tree (same paths, same bytes) after the second run as after the first,
\* and the second run reports generated = 0 and copied = 0.
C3_Idempotent ==
    (Built /\ Rebuild) =>
        /\ files = prev.files
        /\ stats.generated = 0
        /\ stats.copied = 0

\* C4: in a build that directly follows a successful build on unchanged
\* inputs every photo is a full cache hit: nothing is decoded and no derived
\* image file is written.
C4_FullCacheHit ==
    (pc # "idle" /\ change = "none" /\ Rebuild) =>
        \A k \in DOMAIN log :
            log[k].ok => log[k].hit /\ ~log[k].decoded /\ log[k].wrote = {}

\* the bytes of a source photo of the current tree
DataOf(source) == read_source(src, source)[1]

\* C8: with a privacy mode other than On, a photo whose tag stripping fails,
\* by an error or by a panic, is not skipped: process_photo returns Ok and
\* the original is on disk with the unmodified source bytes.
C8_StripFailureFallsBack ==
    (pc \in {"processing", "collected"} /\ gps # "on") =>
        \A k \in DOMAIN log :
            (/\ ~strip_gps_from_image(DataOf(k), k.ext).ok
             /\ DataInfo(DataOf(k)).dims # NoneV
             /\ DataInfo(DataOf(k)).decode)
            => LET photo == [Photo_from_path(k) EXCEPT !.hash = DataInfo(DataOf(k)).hash]
                   orig == original_path(photo, album_images_dir(ImagesDir, k.dir), gps)
               IN  /\ log[k].ok
                   /\ orig \in DOMAIN files
                   /\ files[orig] = Blob("bytes", DataOf(k), 0)

\* this build follows a successful build, and in between the album
\* directory a was renamed to b (nothing else changed)
AfterRename == pc # "idle" /\ change = "none" /\ prev.ran /\ prev.ok /\ prev.change = "rename"

OldAlbumImages == <<"images", "a">>
NewAlbumImages == <<"images", "b">>

\* the previous build left this photo's grid thumbnail under the old directory
HadThumb(k) ==
    \E p \in DOMAIN prev.files :
        /\ IsPrefix(OldAlbumImages, p)
        /\ FileName(p) = k.stem \o "-" \o DataInfo(DataOf(k)).hash \o "-thumb.webp"

\* C5 as stated: after an album directory is renamed between two builds (the
\* photos' bytes and file names unchanged), the second build treats each of
\* its photos as a cache hit: no WebP variant generated, no original copied.
C5_RenameIsCacheHit ==
    AfterRename =>
        \A k \in DOMAIN log :
            (IsPrefix(<<"b">>, k.dir) /\ log[k].ok /\ HadThumb(k))
            => ~log[k].generated_webp /\ ~log[k].copied_original

\* C5 amended: a renamed album's photos keep their hashes and file names,
\* but their target directory images/{album path}/ changes with the album:
\* the second build finds none of their targets, decodes and writes each of
\* them anew under the new directory (generated_webp and copied_original
\* both true), and when it succeeds every derived file of the first build
\* is gone from the old directory and stands, with the same name and bytes,
\* under the new one.
C5_RenameRegenerates ==
    AfterRename =>
        /\ \A k \in DOMAIN log :
              (IsPrefix(<<"b">>, k.dir) /\ log[k].ok)
              => /\ log[k].generated_webp /\ log[k].copied_original
                 /\ log[k].decoded /\ ~log[k].hit
                 /\ \A w \in log[k].wrote : IsPrefix(NewAlbumImages, w)
        /\ pc = "done" =>
              \A p \in DOMAIN prev.files :
                  IsPrefix(OldAlbumImages, p)
                  => /\ p \notin DOMAIN files
                     /\ rename_dir(p, OldAlbumImages, NewAlbumImages) \in DOMAIN files
                     /\ files[rename_dir(p, OldAlbumImages, NewAlbumImages)] = prev.files[p]

\* C5 witness: a second build has finished after the rename, the first build
\* had left files under images/a, and a photo of album b was regenerated
C5_Witness ==
    /\ pc = "done" /\ AfterRename
    /\ \E k \in DOMAIN log :
          IsPrefix(<<"b">>, k.dir) /\ log[k].ok /\ HadThumb(k) /\ log[k].generated_webp

\* the key of a source file in log: the path Photo::from_path keeps
KeyOf(s) == [dir |-> s.dir, stem |-> s.stem, ext |-> s.ext]

\* the photos process_photo failed on, and those it returned Ok for
Failed == {k \in DOMAIN log : ~log[k].ok}
Succeeded == {k \in DOMAIN log : log[k].ok}

\* the sources of the photos an album of the tree holds
Kept(album) == {root[album][i].source : i \in 1..Len(root[album])}

\* the final tree against the outcomes of process_photo: a failed photo is
\* gone from its album, a photo that succeeded is kept, and a photo was left
\* unprocessed only where its album's directory could not be created
TreeAfterFailures ==
    \A s \in src :
        LET k == KeyOf(s)
        IN  /\ k \in Failed => k \notin Kept(s.dir)
            /\ k \in Succeeded => k \in Kept(s.dir)
            /\ k \notin DOMAIN log => \E a \in dirfail : IsPrefix(a, s.dir)

\* one step of the build, seen from a failure of process_photo
FailureStep ==
    /\ \A k \in DOMAIN log' \ DOMAIN log :
          ~log'[k].ok
          => /\ stats'.skipped = stats.skipped + 1
             /\ stats'.total = stats.total
             /\ pc' = "processing"
             /\ stack' = stack /\ cur' = cur
             /\ \A a \in DOMAIN root : \A i \in 1..Len(root[a]) :
                   root[a][i].source # k => root'[a][i] = root[a][i]
    /\ pc = "processing" => pc' \in {"processing", "collected"}
    /\ pc' \in {"processing", "collected"} =>
          /\ stats'.skipped = Cardinality(Failed')
          /\ stats'.total = Cardinality(Succeeded')
    /\ pc' = "collected" => TreeAfterFailures'

\* C6: when process_photo fails for a photo, that photo is removed from its
\* album and skipped grows by exactly one; every other photo of the same and
\* of every other album is still processed and kept; the failure does not end
\* the build (process_album returns, the build goes on to its next stage).
C6_FaultIsolation == [][FailureStep]_vars

\* C6 witness: a build has returned Ok in which process_photo failed for one
\* photo of an album and returned Ok for another photo of the same album
C6_Witness ==
    /\ Built
    /\ \E k \in Failed : \E j \in Succeeded :
          /\ j.dir = k.dir
          /\ j \in Kept(j.dir) /\ k \notin Kept(k.dir)
    /\ stats.skipped = Cardinality(Failed)

\* the coordinates the EXIF of these bytes holds, if it parses and has any
EmbeddedCoord(data) ==
    IF DataInfo(data).exif = "ok" THEN DataInfo(data).coord ELSE NoneV

\* what every mode's GPS block must satisfy for bytes holding coordinates c:
\* none under Off; under General and On a block exactly when the bytes hold
\* coordinates; General without, On with latitude, longitude and display
CoordinatesFit(g, c, mode) ==
    /\ mode = "off" => g = NoneV
    /\ mode # "off" => (g = NoneV <=> c = NoneV)
    /\ (mode = "general" /\ g # NoneV) =>
          g[1].latitude = NoneV /\ g[1].longitude = NoneV /\ g[1].display = NoneV
    /\ (mode = "on" /\ g # NoneV) =>
          /\ g[1].latitude = Some(c[1][1]) /\ g[1].longitude = Some(c[1][2])
          /\ g[1].display # NoneV

\* the photos of the tree process_photo returned Ok for in this build
ProcessedPhotos == {ap \in FinalPhotos : ap.photo.source \in Succeeded}

\* a build is under way or has ended, and gps is still the mode it ran with
InBuild == pc \notin {"idle", "loaded"} /\ change = "none"

NamedCodes == {"JP", "AU"}

OtherModeOriginals(mode) ==
    {stem \o "-" \o h \o "-original" \o (IF mode = "on" THEN "-nogps" ELSE "")
          \o "." \o e : stem \in SeqToSet(StemOrder), h \in Hashes, e \in Exts}

\* C10: when the privacy mode was changed between two builds, the successful
\* second build leaves no original named for the other mode: no
\* {stem}-{hash}-original.{ext} after mode Off or General, no
\* {stem}-{hash}-original-nogps.{ext} after mode On.
C10_NoOtherModeOriginal ==
    (Built /\ prev.ran /\ prev.change = "gps") =>
        \A p \in DOMAIN files : FileName(p) \notin OtherModeOriginals(gps)

\* C10 witness: the build before the change had left an original in the
\* other naming, and the build after it has returned Ok
C10_Witness ==
    /\ Built /\ prev.ran /\ prev.change = "gps"
    /\ \E p \in DOMAIN prev.files :
          Len(p) > 0 /\ FileName(p) \in OtherModeOriginals(gps)

\* the photos discover found: one per image file of the photo tree
Discovered == {KeyOf(s) : s \in src}

\* C11: after process_album returns, the counts are accurate: total + skipped
\* is the number of photos of the discovered tree, total is the number of
\* photos that remain in the tree, skipped is the number of photos removed,
\* and every photo is counted exactly once.
C11_CountsAccurate ==
    (Processed /\ change = "none") =>
        /\ stats.total + stats.skipped = Cardinality(Discovered)
        /\ stats.total = Cardinality(FinalPhotos)
        /\ stats.skipped = Cardinality(Discovered) - Cardinality(FinalPhotos)
        /\ DOMAIN log = Discovered

\* C16: every album that reaches rendering holds at least one photo, in
\* itself or in a descendant: an album left with no photo and no non-empty
\* descendant, also one whose photos were all dropped during processing, is
\* pruned before the pages and the gallery data are made.
C16_EmptyAlbumsPruned ==
    (Processed /\ change = "none") =>
        \A a \in DOMAIN root \ {<<>>} : photo_count(root, a) > 0

\* the errors of Pipeline::load the validation of a site can end in
LoadErrors == {"ThemeNotFound", "MissingIndexTemplate", "NoPhotos"}

\* the site cannot be loaded: no such theme, a theme without the index
\* template, or a photo root without any image
MustFail == theme.resolves = "none" \/ ~theme.has_index_template \/ src = {}

\* C17: if the theme is not found, lacks the index template, or the photo
\* root holds no image, Pipeline::load returns an error and nothing was
\* created, written or deleted in the output directory.
C17_LoadFailureWritesNothing ==
    (pc # "idle" /\ MustFail) =>
        /\ pc = "failed"
        /\ error # NoneV /\ error[1] \in LoadErrors
        /\ files = prev.files /\ dirs = prev.dirs

\* C17 witness: load has failed on a site whose output directory held
\* entries of an earlier life
C17_Witness ==
    /\ pc = "failed" /\ error # NoneV /\ error[1] \in LoadErrors
    /\ DOMAIN files # {}

\* the build is past generate_data_files
DataWritten == pc \in {"data", "static", "index", "albums", "rendered", "done"}

\* the translation files of the output directory
I18nFiles == {p \in DOMAIN files : IsPrefix(<<"static", "i18n">>, p)}

\* C18: a build writes one translation file per language configured for the
\* site: the language codes of the data manifest's i18n map, and the files
\* under static/i18n/ after the build, are those of the configured languages.
C18_OneFilePerLanguage ==
    (DataWritten /\ change = "none") =>
        /\ DOMAIN manifest.i18n = SeqToSet(languages)
        /\ pc = "done" => Cardinality(I18nFiles) = Cardinality(SeqToSet(languages))

\* the build is past copy_static
StaticCopied == pc \in {"static", "index", "albums", "rendered", "done"}

\* the files of the static source of the theme
ThemeStatic(th) ==
    IF th.static_source = "directory" THEN StaticFiles
    ELSE IF th.static_source = "builtin" THEN BuiltinStaticFiles
    ELSE {}

\* C19: for a local and for an embedded static source alike, every
\* non-hidden file at any depth is written under static/ at its own relative
\* directory with a content-hashed name, is in the expected-file set, and has
\* a manifest entry keyed by its relative path.
C19_StaticAssetsCopied ==
    (StaticCopied /\ change = "none") =>
        \A f \in ThemeStatic(theme) :
            ~is_hidden(f) =>
                LET name == f.stem \o "." \o f.ext
                    hashed == hash_filename(f, process_static_file(f, config_minify))
                    dest == Join(<<"static">> \o f.dir, hashed)
                    key == IF f.dir = <<>> THEN name ELSE display(f.dir) \o "/" \o name
                IN  /\ dest \in DOMAIN files
                    /\ dest \in expected
                    /\ key \in DOMAIN asset_manifest

\* where render_photos_in_album writes the page of a photo
PageOf(ap) == Join(ap.album, ap.photo.stem \o ".html")

\* the files that hold the page of a photo of the final tree
PhotoPages ==
    {p \in DOMAIN files :
        \E ap \in FinalPhotos : files[p] = photo_page(ap.photo, ap.album, DataUrls)}

\* C20: with a photo template, a successful build leaves one photo page per
\* photo of the final tree, each in a file of its own: as many photo pages
\* as photos, and the site index and every album page still hold the index
\* and the album they were rendered for.
C20_OnePagePerPhoto ==
    (Built /\ theme.has_photo_template) =>
        /\ \A ap \in FinalPhotos :
              /\ PageOf(ap) \in DOMAIN files
              /\ files[PageOf(ap)] = photo_page(ap.photo, ap.album, DataUrls)
        /\ Cardinality(PhotoPages) = Cardinality(FinalPhotos)
        /\ files[<<"index.html">>] = index_page(root, gps, DataUrls)
        /\ theme.has_album_template =>
              \A a \in DOMAIN root \ {<<>>} :
                  /\ Join(a, "index.html") \in DOMAIN files
                  /\ files[Join(a, "index.html")] = album_page(a, DataUrls)

----------------------------------------------------------------------------
(* Properties of the watch loop *)

\* the event loop calls do_build
RebuildStarts == wpc = "waiting" /\ wpc' = "rebuild"

\* every burst of relevant events gets a rebuild
BurstsServed == \A b \in 1..MaxEvents : (burst >= b) ~> (b \in served)

\* C12: in the watch loop a rebuild starts only when the debounce period
\* has gone by with no event received and at least one relevant event was
\* received since the last rebuild, so a timeout with nothing pending starts
\* none; a burst of relevant events whose gaps are shorter than the debounce
\* period gets exactly one rebuild: no rebuild starts for a burst that
\* already had one, and every burst gets one.
C12_DebouncedRebuild ==
    /\ [][RebuildStarts =>
            /\ elapsed = Debounce
            /\ rx = <<>>
            /\ needs_rebuild
            /\ got # <<>>
            /\ SeqToSet(got) \cap served = {}]_vars
    /\ BurstsServed

\* C12 witness: a rebuild has started for a burst of two relevant events
C12_Witness == wpc = "rebuild" /\ got = <<1, 1>> /\ served = {1}

\* C13: a relevant event that arrives while a rebuild is running does not
\* interrupt it, the rebuild ends only when the pipeline has finished, and
\* the event is not lost: the channel is as it was when the build returns,
\* and another rebuild starts for the event.
C13_EventDuringRebuild ==
    /\ [][(wpc = "building" /\ wpc' # "building") =>
            /\ pc \in {"done", "failed"}
            /\ wpc' = "waiting"
            /\ rx' = rx]_vars
    /\ [][(wpc \in {"rebuild", "building"} /\ owed' = "owed" /\ owed # "owed") =>
            /\ pc' = pc
            /\ wpc' = wpc
            /\ files' = files]_vars
    /\ (owed = "owed") ~> (owed = "paid")

\* C13 witness: a rebuild has started for an event that arrived during the
\* rebuild before it
C13_Witness == owed = "paid" /\ wpc = "rebuild" /\ builds = 2

\* the event is for a path in the output directory the site is now built to
UnderOutput(event) ==
    \E i \in 1..Len(event.paths) : Path_starts_with(event.paths[i], OutputAbs)

\* C14: what a rebuild writes or deletes in the output directory never marks
\* a rebuild as needed: when the event loop receives an event for a path in
\* the output directory now in effect, needs_rebuild stays as it was,
\* whether or not that directory existed when watching started.
C14_OutputEventsIgnored ==
    [][(wpc = "waiting" /\ rx # <<>> /\ rx' = Tail(rx)
            /\ UnderOutput(Head(rx).event)) =>
        needs_rebuild' = needs_rebuild]_vars

\* the file name of the path starts with '.'
Hidden(path) == file_name(path) # NoneV /\ starts_with_dot(file_name(path)[1])

\* the answer C15 states for an event and an output directory
IgnoredAsStated(event, out) ==
    \/ event.kind \notin {"Create", "Modify", "Remove"}
    \/ \E i \in 1..Len(event.paths) : Path_starts_with(event.paths[i], out)
    \/ \E i \in 1..Len(event.paths) : Hidden(event.paths[i])

\* C15: should_ignore_event is true for every event whose kind is not
\* Create, Modify or Remove, for every event with a path in the output
\* directory and for every event with a path whose file name starts with
\* '.', and false for every other event: the event loop marks a rebuild as
\* needed for exactly the events that are none of the three.
C15_FilterAsStated ==
    [][(wpc = "waiting" /\ rx # <<>> /\ rx' = Tail(rx)) =>
        needs_rebuild' =
            (needs_rebuild \/ ~IgnoredAsStated(Head(rx).event, output_dir))]_vars

----------------------------------------------------------------------------
(* Properties of the gallery data and of the order of the stages *)

\* the URL of a file of the output directory: its components, URL-encoded
\* and joined by '/'
UrlOf(path) == url_encode_path(path)

\* the URLs of a photo built from the path of the album that holds it
OwnUrls(ap, gps_mode) ==
    [image_path |-> Photo_image_path(ap.photo, ap.album),
     thumb_path |-> Photo_thumb_path(ap.photo, ap.album),
     original_path |-> Photo_original_path(ap.photo, ap.album, gps_mode),
     html_path |-> Photo_html_path(ap.photo, ap.album)]

\* the four URLs of an entry of the gallery snapshot or of the index context
UrlsOf(d) ==
    [image_path |-> d.image_path, thumb_path |-> d.thumb_path,
     original_path |-> d.original_path, html_path |-> d.html_path]

\* the image URLs of the entry name files of the photo in the expected set
NamesExpected(d, ap, gps_mode) ==
    LET dir == album_images_dir(ImagesDir, ap.album)
    IN  /\ full_path(ap.photo, dir) \in expected
        /\ UrlOf(full_path(ap.photo, dir)) = d.image_path
        /\ thumb_path(ap.photo, dir) \in expected
        /\ UrlOf(thumb_path(ap.photo, dir)) = d.thumb_path
        /\ original_path(ap.photo, dir, gps_mode) \in expected
        /\ UrlOf(original_path(ap.photo, dir, gps_mode)) = d.original_path

\* C21: for every photo of the gallery snapshot and of the index context,
\* the image, thumbnail, original and page URLs are built from the path of
\* the album that holds the photo, so each image URL names a file of that
\* photo in the expected set; also when photos of different albums share a
\* stem.  Stated for the builds in which every album directory was created.
C21_UrlsFromOwningAlbum ==
    (DataWritten /\ change = "none" /\ dirfail = {}) =>
        \A i \in 1..Len(all_photos(root, <<>>)) :
            /\ UrlsOf(build_gallery_data(root, gps).photos[i])
                  = OwnUrls(all_photos(root, <<>>)[i], gps)
            /\ UrlsOf(index_photos(root, gps)[i])
                  = OwnUrls(all_photos(root, <<>>)[i], gps)
            /\ NamesExpected(build_gallery_data(root, gps).photos[i],
                             all_photos(root, <<>>)[i], gps)

\* the paths of the albums list of the gallery snapshot
SnapshotAlbums ==
    {build_gallery_data(root, gps).albums[i].path :
        i \in 1..Len(build_gallery_data(root, gps).albums)}

\* C22: the albums list of the gallery snapshot is the flattened album tree:
\* one entry for every non-root album at every depth of the tree.  Stated
\* for the builds in which every album directory was created.
C22_AlbumsFlattened ==
    (DataWritten /\ change = "none" /\ dirfail = {}) =>
        /\ SnapshotAlbums = {url_encode_path(a) : a \in DOMAIN root \ {<<>>}}
        /\ Len(build_gallery_data(root, gps).albums)
              = Cardinality(DOMAIN root \ {<<>>})

\* the order of the stages of Pipeline::build, as steps of pc
StageOrder ==
    { <<"loaded", "processing">>, <<"processing", "collected">>,
      <<"collected", "data">>, <<"data", "static">>, <<"static", "index">>,
      <<"index", "albums">>, <<"albums", "rendered">>, <<"rendered", "done">> }

\* the files a step writes or registers, and those it deletes
Written ==
    {p \in DOMAIN files' : p \notin DOMAIN files \/ files'[p] # files[p]}
        \cup ((expected' \ expected) \cap DOMAIN files')
Deleted == DOMAIN files \ DOMAIN files'

\* process_album has returned: no album and no photo task is left
ProcessingOver == stack = <<>> /\ cur = NoneV /\ pending = {}

\* one step of a build, seen from the order of the stages
StageStep ==
    /\ pc' # pc =>
          \/ <<pc, pc'>> \in StageOrder
          \/ pc \notin {"idle", "done", "failed"} /\ pc' = "failed"
          \/ pc \in {"idle", "done", "failed"} /\ pc' \in {"loaded", "failed"}
    /\ (pc = "processing" /\ pc' = "collected") => ProcessingOver
    /\ \A p \in Written :
          /\ IsPrefix(ImagesDir, p) => pc = "processing"
          /\ IsPrefix(<<"static">>, p) => pc \in {"collected", "data"} /\ ProcessingOver
          /\ (~IsPrefix(ImagesDir, p) /\ ~IsPrefix(<<"static">>, p))
                => pc \in {"static", "index", "albums"} /\ ProcessingOver
    /\ Deleted # {} => pc = "rendered" /\ pc' = "done" /\ ProcessingOver
    /\ (pc \in {"collected", "data", "static", "index", "albums", "rendered"})
          => root' = root /\ stats' = stats /\ log' = log

\* C23: within one build the stages run strictly in the order Processing,
\* expected-image collection and data/asset emission, Rendering,
\* Reconciling, Done: no data file, static asset or page is written and no
\* file is deleted before process_album has returned, pages are written only
\* after the data files and the static assets, files are deleted only after
\* every page was rendered, and no photo is processed after process_album
\* has returned.
C23_StagesInOrder == [][StageStep]_vars

\* C23 witness: a build has returned Ok in which photos were processed, data
\* files, static assets and pages were written, and reconciliation deleted a
\* file the output directory held before
C23_Witness ==
    /\ pc = "done" /\ builds = 1
    /\ \E k \in DOMAIN log : log[k].wrote # {}
    /\ manifest.gallery # "" /\ asset_manifest # <<>>
    /\ <<"index.html">> \in DOMAIN files
    /\ \E a \in DOMAIN root \ {<<>>} : Join(a, "index.html") \in DOMAIN files
    /\ \E p \in DOMAIN prev.files : p \notin DOMAIN files

----------------------------------------------------------------------------
(* Properties of the photo tasks *)

\* the output directory as this build found it, with the directories the
\* build has made
PrevFs == [files |-> prev.files, dirs |-> dirs]

\* what process_photo does for the source photo k when no other task runs:
\* its cache check and its writes on the directory as the build found it
Alone(k) ==
    process_photo(Photo_from_path(k), album_images_dir(ImagesDir, k.dir), gps,
                  PrevFs, src)

\* the counters when every task does what it does alone
AloneStats ==
    [total |-> Cardinality({k \in Discovered : Alone(k).ok}),
     cached |-> Cardinality({k \in Discovered :
                   Alone(k).ok /\ ~Alone(k).generated_webp
                       /\ ~Alone(k).copied_original}),
     generated |-> Cardinality({k \in Discovered :
                      Alone(k).ok /\ Alone(k).generated_webp}),
     copied |-> Cardinality({k \in Discovered :
                   Alone(k).ok /\ Alone(k).copied_original}),
     skipped |-> Cardinality({k \in Discovered : ~Alone(k).ok})]

\* C24: the stats process_album returns and the derived files on disk after
\* processing do not depend on the interleaving of the photo tasks: every
\* task decides and writes what it would with no other task running (its
\* cache check as on the directory the build found), so the counters are the
\* sums of those decisions and the files are those the build found plus
\* what each task writes alone.  Stated for the builds in which every album
\* directory was created.
C24_InterleavingIrrelevant ==
    (pc = "collected" /\ dirfail = {}) =>
        /\ \A k \in DOMAIN log :
              /\ log[k].ok = Alone(k).ok
              /\ log[k].generated_webp = Alone(k).generated_webp
              /\ log[k].copied_original = Alone(k).copied_original
        /\ stats = AloneStats
        /\ DOMAIN files = DOMAIN prev.files \cup UNION {Alone(k).wrote : k \in Discovered}
        /\ \A k \in Discovered : \A p \in Alone(k).wrote :
              files[p] = Alone(k).fs.files[p]

\* the photo with the hash of its source bytes
Hashed(photo) == [photo EXCEPT !.hash = DataInfo(DataOf(photo.source)).hash]

\* what the task of photo i of the album in flight found at its cache check
NeedAtCheck(i) ==
    IF i \in DOMAIN tasks THEN tasks[i]
    ELSE cache_check(root[cur[1]][i], album_images_dir(ImagesDir, cur[1]), gps,
                     TheFs, src)

\* the task wrote only targets its cache check found missing
WroteOnlyMissing(photo, dir, need, wrote) ==
    /\ wrote \subseteq { micro_thumb_path(photo, dir), thumb_path(photo, dir),
                         full_path(photo, dir), original_path(photo, dir, gps) }
    /\ micro_thumb_path(photo, dir) \in wrote => need.micro
    /\ thumb_path(photo, dir) \in wrote => need.thumb
    /\ full_path(photo, dir) \in wrote => need.full
    /\ original_path(photo, dir, gps) \in wrote => need.original

\* one step of a build, seen from the files that exist before it
CacheStep ==
    /\ \A i \in pending \ pending' :
          /\ WroteOnlyMissing(Hashed(root[cur[1]][i]),
                              album_images_dir(ImagesDir, cur[1]), NeedAtCheck(i),
                              log'[root[cur[1]][i].source].wrote)
          /\ log'[root[cur[1]][i].source].wrote \cap DOMAIN prev.files = {}
    /\ pc = "processing" =>
          \A p \in DOMAIN files : p \in DOMAIN files' /\ files'[p] = files[p]
    /\ pc = "rendered" =>
          \A p \in DOMAIN files \cap expected :
              p \in DOMAIN files' /\ files'[p] = files[p]

\* the derived images the build found and still expects are as it found them
CachedKept ==
    \A p \in DOMAIN prev.files \cap expected :
        IsPrefix(ImagesDir, p) => p \in DOMAIN files /\ files[p] = prev.files[p]

\* C25: process_photo writes a target only when its path did not exist at
\* its cache check: no file the build found is written by processing, no
\* file is changed or removed by processing, reconciliation deletes no file
\* of the expected set, and after the build every derived image it found
\* and still expects is as it was.
C25_CachedFilesUntouched ==
    /\ [][CacheStep]_vars
    /\ [](pc = "done" => CachedKept)

\* C25 witness: a build has returned Ok that found the thumbnail of a photo
\* from the build before, wrote another target of that photo, and kept the
\* thumbnail
C25_Witness ==
    /\ pc = "done" /\ prev.ran
    /\ \E ap \in FinalPhotos :
          /\ ap.photo.source \in Succeeded
          /\ log[ap.photo.source].wrote # {}
          /\ thumb_path(ap.photo, album_images_dir(ImagesDir, ap.album))
                \in DOMAIN prev.files \cap DOMAIN files \cap expected

\* the photo carries what process_photo computes from its source bytes
Finalized(photo) ==
    /\ photo.hash # ""
    /\ photo.hash = DataInfo(DataOf(photo.source)).hash
    /\ photo.original_size = DataInfo(DataOf(photo.source)).size
    /\ <<photo.width, photo.height>> = DataInfo(DataOf(photo.source)).dims[1]

\* C26: when process_album has returned, every photo still in the album tree
\* has its content hash (the 8 characters of its source bytes' digest, never
\* empty), its size and its dimensions, also when all its files were cache
\* hits: no photo with an empty hash reaches the collection of the expected
\* images, the data files or the pages.
C26_HashesFinalized ==
    (Processed /\ change = "none") =>
        \A ap \in FinalPhotos : Finalized(ap.photo)

----------------------------------------------------------------------------
(* Properties of a build that returns an error *)

\* the step in which build returns an Err
FailStep == pc # "failed" /\ pc' = "failed"

\* the output directory lost nothing since build was called: every file it
\* held is still there, and the derived images hold the same bytes
OutputKept ==
    \A p \in DOMAIN prev.files :
        /\ p \in DOMAIN files
        /\ IsPrefix(ImagesDir, p) => files[p] = prev.files[p]

\* C27: when a step of build before reconciliation fails (creating the
\* output or images directory, emitting the data files, copying the static
\* assets, rendering or writing a page), build returns that error without
\* running reconciliation: the failing step deletes nothing and sets the
\* error, no step follows it but the next call of build, and when build has
\* returned the error every file the output directory held when build was
\* called is still there, the derived images with the bytes they had.
C27_FailureDeletesNothing ==
    /\ [][ /\ FailStep => (Deleted = {} /\ IsSome(error'))
           /\ pc = "failed" => (pc' \in {"failed", "loaded"} /\ Deleted = {}) ]_vars
    /\ [](pc = "failed" => OutputKept)

\* C27 witness: a build failed while rendering the album or photo pages,
\* after the data files, the static assets and the index page were written,
\* in a run that found derived images of an earlier build as cache hits;
\* they are all still in the output directory
C27_Witness ==
    /\ pc = "failed" /\ prev.ran
    /\ manifest.gallery # "" /\ asset_manifest # <<>>
    /\ <<"index.html">> \in expected /\ stats.cached > 0
    /\ \E p \in DOMAIN prev.files : IsPrefix(ImagesDir, p) /\ p \in expected

----------------------------------------------------------------------------
(* Properties of the statistics *)

\* the match in process_album_recursive counts this task as cached
CountedCached(t) == t.ok /\ ~t.generated_webp /\ ~t.copied_original

\* C28: a processed photo is counted in the cached statistic exactly when
\* its task wrote no file and did not decode the source; a photo for which
\* any of micro, thumb, full or original was written is counted as generated
\* or copied and not as cached.
C28_CachedMeansUntouched ==
    \A k \in DOMAIN log :
        log[k].ok =>
            /\ CountedCached(log[k]) <=> (log[k].wrote = {} /\ ~log[k].decoded)
            /\ log[k].wrote # {} =>
                  (log[k].generated_webp \/ log[k].copied_original)

----------------------------------------------------------------------------
(* Properties of the debounce wait *)

\* the loop waits with a rebuild pending, every relevant event so far was
\* received while it waited, and a whole debounce period has gone by since
\* the last of them arrived
RebuildDue ==
    /\ wpc = "waiting" /\ needs_rebuild /\ rx = <<>>
    /\ owed = "none"
    /\ gap = Debounce

\* C29: once the watch loop has received a relevant event, a rebuild starts
\* within one debounce period after the last relevant event, even when
\* filtered events (under the output directory, on hidden files, of
\* non-content kinds) keep arriving: filtered events do not restart the
\* debounce wait, so when a debounce period has gone by since the last
\* relevant event the running recv_timeout is at its timeout.
C29_FilteredEventsDoNotDelay == RebuildDue => elapsed = Debounce

----------------------------------------------------------------------------
(* processing.rs: an fs::write that fails part-way *)

\* the four targets of process_photo in the order it writes them
TargetOrder == <<"micro", "thumb", "full", "original">>

TargetPath(photo, images_dir, gps_mode, t) ==
    IF t = "micro" THEN micro_thumb_path(photo, images_dir)
    ELSE IF t = "thumb" THEN thumb_path(photo, images_dir)
    ELSE IF t = "full" THEN full_path(photo, images_dir)
    ELSE original_path(photo, images_dir, gps_mode)

\* what fs::write leaves behind when it fails after it created the file: a
\* proper prefix of the bytes
Torn(content) == [content EXCEPT !.kind = "partial"]

\* process_photo when the fs::write of target number n fails part-way: the
\* targets before it are written, the target itself is left with a prefix
\* of its bytes, and ? returns the Err
process_photo_torn(photo, images_dir, gps_mode, need, n, fs, tree) ==
    With(process_photo_at(photo, images_dir, gps_mode, need, fs, tree), LAMBDA whole :
    With(process_photo_at(photo, images_dir, gps_mode,
                          [t \in DOMAIN need |->
                              need[t] /\ \E m \in 1..(n - 1) : TargetOrder[m] = t],
                          fs, tree), LAMBDA before :
    With(TargetPath(whole.photo, images_dir, gps_mode, TargetOrder[n]), LAMBDA path :
        Outcome(FALSE, whole.photo,
                write(before.fs, path, Torn(whole.fs.files[path])).fs,
                FALSE, FALSE, whole.decoded, before.wrote \cup {path}, FALSE))))

\* no write has failed part-way so far
NoneTorn == \A p \in DOMAIN files : files[p].kind # "partial"

\* one task of par_iter_mut in which a write fails part-way (the disk is
\* full, the device reports an error): at most once in a run of the model
TornPhoto(i) ==
    /\ pc = "processing"
    /\ cur # NoneV
    /\ i \in pending
    /\ NoneTorn
    /\ \E need \in {cache_check(root[cur[1]][i], album_images_dir(ImagesDir, cur[1]),
                                gps, TheFs, src)} :
       \E n \in 1..Len(TargetOrder) :
          /\ need[TargetOrder[n]]
          /\ process_photo_at(root[cur[1]][i], album_images_dir(ImagesDir, cur[1]),
                              gps, need, TheFs, src).ok
          /\ MatchResult(cur[1], i,
                         process_photo_torn(root[cur[1]][i],
                                            album_images_dir(ImagesDir, cur[1]),
                                            gps, need, n, TheFs, src))
    /\ pending' = pending \ {i}
    /\ UNCHANGED <<tasks, src, gps, theme, languages, expected, manifest,
                   asset_manifest, error, pc, stack, cur, seed, builds, dirfail,
                   prev, change>>
    /\ UNCHANGED watchVars

\* after a build that returned an error the user removes what was in its
\* way: the regular file where an album's pages go
ClearStale ==
    /\ wpc = "off"
    /\ pc = "failed"
    /\ builds < MaxBuilds
    /\ <<"a">> \in DOMAIN files
    /\ files' = remove_file(TheFs, <<"a">>).files
    /\ UNCHANGED <<tasks, src, gps, theme, languages, dirs, root, expected, manifest,
                   asset_manifest, error, pc, stack, cur, pending, stats, seed,
                   builds, log, dirfail, prev, change>>
    /\ UNCHANGED watchVars

\* the output directory is empty, or a regular file is where the pages of
\* album a go
TornInit == Init /\ DOMAIN files \subseteq {<<"a">>}

TornNext ==
    \/ Load
    \/ BuildStart
    \/ BeginAlbum
    \/ \E i \in pending : ProcessPhoto(i)
    \/ \E i \in pending : TornPhoto(i)
    \/ EndAlbum
    \/ CollectExpectedImages
    \/ GenerateDataFiles
    \/ CopyStatic
    \/ RenderIndex
    \/ RenderAlbums
    \/ RenderPhotos
    \/ Cleanup
    \/ ClearStale

TornSpec == TornInit /\ [][TornNext]_vars

----------------------------------------------------------------------------
(* Properties of the cache across failed builds *)

\* the bytes a complete run of process_photo writes to target t
CompleteTarget(photo, gps_mode, t) ==
    IF t = "micro" THEN generate_variant(DataOf(photo.source), MICRO_THUMB_SIZE)
    ELSE IF t = "thumb" THEN generate_variant(DataOf(photo.source), THUMB_SIZE)
    ELSE IF t = "full" THEN generate_variant(DataOf(photo.source), FULL_SIZE)
    ELSE final_original(DataOf(photo.source), photo.extension, gps_mode)[1]

\* the targets of the photos in the tree that this build found in place
\* (its task did not write them) and that are in the output with the
\* expected set's blessing
CacheHitsKept ==
    { [photo |-> ap.photo, t |-> TargetOrder[n],
       path |-> TargetPath(ap.photo, album_images_dir(ImagesDir, ap.album), gps,
                           TargetOrder[n])] :
        ap \in {x \in FinalPhotos : x.photo.source \in DOMAIN log},
        n \in 1..Len(TargetOrder) }

\* C30: over any sequence of builds, including builds in which a file write
\* fails part-way or that return an error before reconciliation, every
\* derived image that a later successful build treats as a cache hit and
\* keeps in the output holds the complete result of generating that
\* variant, never a partially written file.
C30_CacheHitsComplete ==
    pc = "done" =>
        \A h \in CacheHitsKept :
            ( /\ h.path \in DOMAIN files
              /\ h.path \in expected
              /\ log[h.photo.source].ok
              /\ h.path \notin log[h.photo.source].wrote )
            => files[h.path] = CompleteTarget(h.photo, gps, h.t)

====
